---- MODULE Spec2Model ----
(***************************************************************************)
(* Placement-and-collision engine of the S&S stand configurator.           *)
(*                                                                         *)
(* Lengths are integers in units of 0.1 mm (1 m = 10000), so that every    *)
(* halving, quartering and sum the code performs on the catalogue sizes is *)
(* exact, as it is in real arithmetic.  Sizes are drawn from multiples of  *)
(* 8 units.  Angles are integer degrees.                                   *)
(***************************************************************************)
EXTENDS Integers, Sequences, FiniteSets, TLC

\* ------------------------------------------------------------------------
\* Units and program constants
\* ------------------------------------------------------------------------
\* `undefined` of an optional numeric field (size, position, clearance)
Nil == 0 - 99999999

\* a ?? b
Dflt(v, d) == IF v = Nil THEN d ELSE v

\* a || b on numbers (0 and undefined are both falsy)
OrElse(v, d) == IF v = Nil \/ v = 0 THEN d ELSE v

DEFAULT_CLEARANCE == 2000
wallThickness == 600
panelGap == 100
columnSize == 1200
trussHandleHalf == 4000
wallEps == 10
historyLimit == 20

Min(a, b) == IF a < b THEN a ELSE b
Max(a, b) == IF a > b THEN a ELSE b
Abs(a) == IF a < 0 THEN 0 - a ELSE a

\* ------------------------------------------------------------------------
\* lib/collision.ts
\* ------------------------------------------------------------------------
intersects_touching(a, b) ==
    ~(a.maxX < b.minX \/ a.minX > b.maxX \/ a.maxZ < b.minZ \/ a.minZ > b.maxZ)

intersects_lopsided(a, b) ==
    ~(a.maxX < b.minX \/ a.minX >= b.maxX \/ a.maxZ <= b.minZ \/ a.minZ >= b.maxZ)

intersects(a, b) ==
    ~(a.maxX <= b.minX \/ a.minX >= b.maxX \/ a.maxZ <= b.minZ \/ a.minZ >= b.maxZ)

makeAabb_nopad(id, label, x, z, width, depth, clearance) ==
    [id |-> id, label |-> label,
     minX |-> x - (width \div 2), maxX |-> x + (width \div 2) + clearance,
     minZ |-> z - (depth \div 2), maxZ |-> z + (depth \div 2) + clearance]

makeAabb(id, label, x, z, width, depth, clearance) ==
    LET halfW == (width \div 2) + clearance
        halfD == (depth \div 2) + clearance
    IN  [id |-> id, label |-> label,
         minX |-> x - halfW, maxX |-> x + halfW,
         minZ |-> z - halfD, maxZ |-> z + halfD]

NoBox == [id |-> "none", label |-> "none", minX |-> 0, maxX |-> 0, minZ |-> 0, maxZ |-> 0]

\* first box in iteration order that is not ignored and intersects; NoBox for undefined
RECURSIVE findCollisionFrom(_, _, _, _)
findCollisionFrom(candidate, boxes, ignored, i) ==
    IF i > Len(boxes) THEN NoBox
    ELSE IF boxes[i].id \in ignored THEN findCollisionFrom(candidate, boxes, ignored, i + 1)
    ELSE IF intersects(candidate, boxes[i]) THEN boxes[i]
    ELSE findCollisionFrom(candidate, boxes, ignored, i + 1)

findCollision_firstOnly(candidate, boxes, ignored) ==
    IF Len(boxes) = 0 THEN NoBox
    ELSE IF boxes[1].id \notin ignored /\ intersects(candidate, boxes[1]) THEN boxes[1]
    ELSE NoBox

findCollision_noIgnore(candidate, boxes, ignored) == findCollisionFrom(candidate, boxes, {}, 1)

findCollision(candidate, boxes, ignored) == findCollisionFrom(candidate, boxes, ignored, 1)

RECURSIVE findCollisionForManyFrom(_, _, _, _)
findCollisionForManyFrom(candidates, boxes, ignored, i) ==
    IF i > Len(candidates) THEN [collided |-> FALSE, hit |-> NoBox, candidate |-> NoBox]
    ELSE LET hit == findCollision(candidates[i], boxes, ignored)
         IN  IF hit # NoBox
             THEN [collided |-> TRUE, hit |-> hit, candidate |-> candidates[i]]
             ELSE findCollisionForManyFrom(candidates, boxes, ignored, i + 1)

findCollisionForMany_boxMajor(candidates, boxes, ignored) ==
    IF \E i \in 1..Len(boxes) : \E k \in 1..Len(candidates) :
          findCollision(candidates[k], <<boxes[i]>>, ignored) # NoBox
    THEN LET i == CHOOSE i \in 1..Len(boxes) :
                     /\ \E k \in 1..Len(candidates) :
                           findCollision(candidates[k], <<boxes[i]>>, ignored) # NoBox
                     /\ \A j \in 1..(i - 1) : \A k \in 1..Len(candidates) :
                           findCollision(candidates[k], <<boxes[j]>>, ignored) = NoBox
             k == CHOOSE k \in 1..Len(candidates) :
                     /\ findCollision(candidates[k], <<boxes[i]>>, ignored) # NoBox
                     /\ \A m \in 1..(k - 1) :
                           findCollision(candidates[m], <<boxes[i]>>, ignored) = NoBox
         IN  [collided |-> TRUE, hit |-> boxes[i], candidate |-> candidates[k]]
    ELSE [collided |-> FALSE, hit |-> NoBox, candidate |-> NoBox]

findCollisionForMany(candidates, boxes, ignored) ==
    findCollisionForManyFrom(candidates, boxes, ignored, 1)

\* id prefixes of the scene boxes and drag keys
CtrKey(id) == "ctr-d-" \o id
ScrKey(id) == "scr-d-" \o id
TrussColIds == <<"truss-col-front-left", "truss-col-front-right",
                 "truss-col-back-left", "truss-col-back-right">>

\* centres of the four truss support columns for a truss offset (ox, oz)
TrussColumnPositions(width, depth, ox, oz) ==
    << <<(0 - width) \div 2 + ox, depth \div 2 + oz>>,
       <<width \div 2 + ox, depth \div 2 + oz>>,
       <<(0 - width) \div 2 + ox, (0 - depth) \div 2 + oz>>,
       <<width \div 2 + ox, (0 - depth) \div 2 + oz>> >>

CabinBoxes(cfg, clearance) ==
    LET cabin == cfg.cabin IN
    IF cabin.present /\ cabin.enabled
    THEN LET cw == Dflt(cabin.width, 15000)
             cd == Dflt(cabin.depth, 15000)
             x == Dflt(cabin.x, (0 - cfg.width) \div 2 + cw \div 2 + 2500)
             z == Dflt(cabin.z, (0 - cfg.depth) \div 2 + cd \div 2 + 2500)
         IN  <<makeAabb("cabin", "Kabine", x, z, cw, cd, clearance)>>
    ELSE <<>>

CounterVariantOf(cfg, ctr) ==
    IF ctr.variant # "nil" THEN ctr.variant
    ELSE IF cfg.counterVariant # "nil" THEN cfg.counterVariant ELSE "basic"

CounterW_basicOnly(cfg, ctr) == Dflt(ctr.w, 9000)

CounterW(cfg, ctr) == Dflt(ctr.w, IF CounterVariantOf(cfg, ctr) = "premium" THEN 14000 ELSE 9000)
CounterD(cfg, ctr) == Dflt(ctr.d, IF CounterVariantOf(cfg, ctr) = "premium" THEN 6000 ELSE 5000)

CounterBox(cfg, ctr, clearance) ==
    makeAabb(CtrKey(ctr.id), "Counter", Dflt(ctr.x, 0), Dflt(ctr.z, 0),
             CounterW(cfg, ctr), CounterD(cfg, ctr), clearance)

ScreenMount(scr) == IF scr.mount = "nil" THEN "wall" ELSE scr.mount
ScreenSide(scr) == IF scr.wallSide = "nil" THEN "back" ELSE scr.wallSide

ScreenBox(scr, clearance) ==
    LET w == Dflt(scr.w, 9000)
        t == Dflt(scr.t, 200)
        mount == ScreenMount(scr)
        wallSide == ScreenSide(scr)
        x == Dflt(scr.x, 0)
        z == Dflt(scr.z, 0)
    IN  IF mount = "wall"
        THEN IF wallSide = "left" \/ wallSide = "right"
             THEN makeAabb(ScrKey(scr.id), "Screen", x, z, OrElse(t, 500), w, clearance)
             ELSE makeAabb(ScrKey(scr.id), "Screen", x, z, w, OrElse(t, 500), clearance)
        ELSE LET depth == IF mount = "floor" THEN OrElse(t, 1000) ELSE w \div 4
             IN  makeAabb(ScrKey(scr.id), "Screen", x, z, w, depth, clearance)

TrussBoxes(cfg, clearance) ==
    IF cfg.truss
    THEN LET ps == TrussColumnPositions(cfg.width, cfg.depth,
                                        Dflt(cfg.trussOffset.x, 0), Dflt(cfg.trussOffset.z, 0))
         IN  [i \in 1..4 |-> makeAabb(TrussColIds[i], "Truss-Stuetze", ps[i][1], ps[i][2],
                                      columnSize, columnSize, clearance)]
    ELSE <<>>

buildSceneAabbs(cfg, clearance) ==
    CabinBoxes(cfg, clearance)
      \o [i \in 1..Len(cfg.countersDetailed) |-> CounterBox(cfg, cfg.countersDetailed[i], clearance)]
      \o [i \in 1..Len(cfg.detailedScreens) |-> ScreenBox(cfg.detailedScreens[i], clearance)]
      \o TrussBoxes(cfg, clearance)

\* ------------------------------------------------------------------------
\* components/Configurator3D.tsx: clamping
\* ------------------------------------------------------------------------
clampXZ_wide(x, z, width, depth, halfW, halfD) ==
    LET minX == (0 - width) \div 2 + halfW
        maxX == width \div 2 + halfW
        minZ == (0 - depth) \div 2 + halfD
        maxZ == depth \div 2 - halfD
    IN  [x |-> Min(maxX, Max(minX, x)), z |-> Min(maxZ, Max(minZ, z))]

clampXZ(x, z, width, depth, halfW, halfD) ==
    LET minX == (0 - width) \div 2 + halfW
        maxX == width \div 2 - halfW
        minZ == (0 - depth) \div 2 + halfD
        maxZ == depth \div 2 - halfD
    IN  [x |-> Min(maxX, Max(minX, x)), z |-> Min(maxZ, Max(minZ, z))]

clampValue(v, min, max) == Min(max, Max(min, v))

\* ------------------------------------------------------------------------
\* lib/interactionRules.ts
\* ------------------------------------------------------------------------
\* profiles: gridSnap 0 stands for "no gridSnap"; rotationByWall only on screen
interactionProfiles ==
    [counter |-> [allowedLevels |-> {"floor"}, snapToNearestWall |-> FALSE,
                  gridSnap |-> 500, defaultRotation |-> 0, rotationByWall |-> FALSE],
     screen  |-> [allowedLevels |-> {"wall", "floor"}, snapToNearestWall |-> TRUE,
                  gridSnap |-> 500, defaultRotation |-> 0, rotationByWall |-> TRUE],
     cabin   |-> [allowedLevels |-> {"floor"}, snapToNearestWall |-> FALSE,
                  gridSnap |-> 0, defaultRotation |-> 0, rotationByWall |-> FALSE],
     truss   |-> [allowedLevels |-> {"floor"}, snapToNearestWall |-> FALSE,
                  gridSnap |-> 500, defaultRotation |-> 0, rotationByWall |-> FALSE]]

ProfileKeys == {"counter", "screen", "cabin", "truss"}

rulesClampXZ_wide(x, z, context, halfX, halfZ) ==
    LET minX == (0 - context.width) \div 2 + halfX
        maxX == context.width \div 2 - halfX
        minZ == (0 - context.depth) \div 2 - halfZ
        maxZ == context.depth \div 2 - halfZ
    IN  [x |-> Min(maxX, Max(minX, x)), z |-> Min(maxZ, Max(minZ, z))]

rulesClampXZ(x, z, context, halfX, halfZ) ==
    LET minX == (0 - context.width) \div 2 + halfX
        maxX == context.width \div 2 - halfX
        minZ == (0 - context.depth) \div 2 + halfZ
        maxZ == context.depth \div 2 - halfZ
    IN  [x |-> Min(maxX, Max(minX, x)), z |-> Min(maxZ, Max(minZ, z))]

\* Math.round(value / grid) * grid; Math.round rounds halves towards +infinity
snapToGrid(value, grid) ==
    IF grid = Nil \/ grid = 0 THEN value
    ELSE IF grid <= 0 THEN value
    ELSE ((2 * value + grid) \div (2 * grid)) * grid

\* rotationByWall of the screen profile, in degrees
RotationByWall_mirrored(side) == IF side = "left" THEN 0 - 90 ELSE IF side = "right" THEN 90 ELSE 0

RotationByWall(side) == IF side = "left" THEN 90 ELSE IF side = "right" THEN 0 - 90 ELSE 0

\* Object.entries(distances).sort(...)[0]: stable sort over back, left, right
findNearestWallSide(position, context) ==
    LET backZ == (0 - context.depth) \div 2 + context.wallThickness + context.panelGap
        leftX == (0 - context.width) \div 2 + context.wallThickness + context.panelGap
        rightX == context.width \div 2 - context.wallThickness - context.panelGap
        dBack == Abs(position.z - backZ)
        dLeft == Abs(position.x - leftX)
        dRight == Abs(position.x - rightX)
    IN  IF dBack <= dLeft /\ dBack <= dRight THEN "back"
        ELSE IF dLeft <= dRight THEN "left"
        ELSE "right"

\* options: mount ("nil" = default floor), wallSide ("nil" = absent),
\* halfX/halfZ (Nil = absent), along/away (wallSnapPadding of the target side, Nil = absent)
applyInteractionRules(profile, position, context, options) ==
    LET mount == IF options.mount = "nil" THEN "floor" ELSE options.mount
        sx == snapToGrid(position.x, profile.gridSnap)
        sz == snapToGrid(position.z, profile.gridSnap)
        backZ == (0 - context.depth) \div 2 + context.wallThickness + context.panelGap
        leftX == (0 - context.width) \div 2 + context.wallThickness + context.panelGap
        rightX == context.width \div 2 - context.wallThickness - context.panelGap
    IN  IF mount = "wall" /\ "wall" \in profile.allowedLevels
        THEN LET targetSide ==
                     IF options.wallSide # "nil" THEN options.wallSide
                     ELSE IF profile.snapToNearestWall
                          THEN findNearestWallSide([x |-> sx, z |-> sz], context)
                          ELSE "back"
                 along == Dflt(options.along, Dflt(options.halfX, 0))
                 away == Dflt(options.away, Dflt(options.halfZ, wallEps))
                 rot == IF profile.rotationByWall THEN RotationByWall(targetSide)
                        ELSE profile.defaultRotation
             IN  IF targetSide = "back"
                 THEN [position |-> [x |-> rulesClampXZ(sx, backZ + away, context, along, 0).x,
                                     z |-> backZ + away],
                       rotationY |-> rot, wallSide |-> targetSide]
                 ELSE IF targetSide = "left"
                 THEN [position |-> [x |-> leftX + away,
                                     z |-> rulesClampXZ(leftX + away, sz, context, 0, along).z],
                       rotationY |-> rot, wallSide |-> targetSide]
                 ELSE [position |-> [x |-> rightX - away,
                                     z |-> rulesClampXZ(rightX - away, sz, context, 0, along).z],
                       rotationY |-> rot, wallSide |-> targetSide]
        ELSE LET c == IF "floor" \in profile.allowedLevels
                      THEN rulesClampXZ(sx, sz, context, Dflt(options.halfX, 0), Dflt(options.halfZ, 0))
                      ELSE [x |-> sx, z |-> sz]
             IN  [position |-> c, rotationY |-> profile.defaultRotation,
                  wallSide |-> options.wallSide]

\* ------------------------------------------------------------------------
\* store/configStore.ts
\* The configuration keeps the fields the placement code reads or writes:
\* stand size and type, storageRoom, cabin, detailed counters and screens,
\* truss, trussOffset, collisionClearance, counterVariant.  Optional numbers
\* are Nil when absent, optional strings "nil".
\* ------------------------------------------------------------------------
wallFixedMap(type) ==
    IF type = "row" THEN 3 ELSE IF type = "corner" THEN 2 ELSE IF type = "head" THEN 1 ELSE 0

NoCabin == [present |-> FALSE, enabled |-> FALSE, width |-> Nil, depth |-> Nil, x |-> Nil, z |-> Nil]

clampCabinPosition_asGiven(cfg, cabin) ==
    [x |-> Dflt(cabin.x, (0 - cfg.width \div 2) + OrElse(cabin.width, 15000) \div 2 + 2500),
     z |-> Dflt(cabin.z, (0 - cfg.depth \div 2) + OrElse(cabin.depth, 15000) \div 2 + 2500)]

clampCabinPosition(cfg, cabin) ==
    LET standHalfX == cfg.width \div 2
        standHalfZ == cfg.depth \div 2
        cabinHalfX == OrElse(cabin.width, 15000) \div 2
        cabinHalfZ == OrElse(cabin.depth, 15000) \div 2
        minX == (0 - standHalfX) + cabinHalfX
        maxX == standHalfX - cabinHalfX
        minZ == (0 - standHalfZ) + cabinHalfZ
        maxZ == standHalfZ - cabinHalfZ
        rawX == Dflt(cabin.x, (0 - standHalfX) + cabinHalfX + 2500)
        rawZ == Dflt(cabin.z, (0 - standHalfZ) + cabinHalfZ + 2500)
    IN  [x |-> Min(maxX, Max(minX, rawX)), z |-> Min(maxZ, Max(minZ, rawZ))]

normalizeConfig(cfg) ==
    LET fixedWalls == wallFixedMap(cfg.type)
        hasBack == fixedWalls >= 1
        hasLeft == fixedWalls >= 2
        hasRight == fixedWalls >= 3
        allowed(side) == (side = "back" /\ hasBack) \/ (side = "left" /\ hasLeft)
                           \/ (side = "right" /\ hasRight)
        storageActive == hasBack /\ cfg.storageRoom
        NotWall(scr) == ScreenMount(scr) # "wall"
        fixScreen(scr) ==
            IF ScreenMount(scr) # "wall" THEN scr
            ELSE IF scr.wallSide # "nil" /\ allowed(scr.wallSide) THEN scr
            ELSE [scr EXCEPT !.wallSide = "back"]
        screens ==
            IF ~hasBack THEN SelectSeq(cfg.detailedScreens, NotWall)
            ELSE [i \in 1..Len(cfg.detailedScreens) |-> fixScreen(cfg.detailedScreens[i])]
        cabin0 ==
            IF ~cfg.cabin.present
            THEN [present |-> TRUE, enabled |-> storageActive, width |-> 15000,
                  depth |-> 15000, x |-> Nil, z |-> Nil]
            ELSE [cfg.cabin EXCEPT !.enabled = storageActive]
        cabin1 ==
            IF cabin0.enabled
            THEN LET pos == clampCabinPosition(cfg, cabin0)
                 IN  [cabin0 EXCEPT !.x = pos.x, !.z = pos.z]
            ELSE cabin0
    IN  [cfg EXCEPT !.storageRoom = storageActive,
                    !.detailedScreens = screens,
                    !.cabin = cabin1]

\* a setConfig patch: `has` names the fields the patch carries
NoPatch ==
    [has |-> {}, width |-> Nil, depth |-> Nil, type |-> "nil", cabinX |-> Nil, cabinZ |-> Nil,
     countersDetailed |-> <<>>, detailedScreens |-> <<>>, trussX |-> Nil, trussZ |-> Nil]

mergeModules_replace(base, patch) ==
    [base EXCEPT
        !.cabin = IF "cabin" \in patch.has
                  THEN [NoCabin EXCEPT !.present = TRUE,
                                       !.x = IF "cabinX" \in patch.has THEN patch.cabinX ELSE @,
                                       !.z = IF "cabinZ" \in patch.has THEN patch.cabinZ ELSE @]
                  ELSE NoCabin,
        !.countersDetailed =
            IF "countersDetailed" \in patch.has THEN patch.countersDetailed ELSE <<>>,
        !.detailedScreens =
            IF "detailedScreens" \in patch.has THEN patch.detailedScreens ELSE <<>>,
        !.trussOffset =
            IF "trussOffset" \in patch.has THEN [x |-> patch.trussX, z |-> patch.trussZ]
            ELSE [x |-> Nil, z |-> Nil]]

mergeModules(base, patch) ==
    LET cabin ==
            IF "cabin" \in patch.has
            THEN [base.cabin EXCEPT !.present = TRUE,
                                    !.x = IF "cabinX" \in patch.has THEN patch.cabinX ELSE @,
                                    !.z = IF "cabinZ" \in patch.has THEN patch.cabinZ ELSE @]
            ELSE base.cabin
    IN  [base EXCEPT
            !.cabin = cabin,
            !.countersDetailed =
                IF "countersDetailed" \in patch.has THEN patch.countersDetailed ELSE @,
            !.detailedScreens =
                IF "detailedScreens" \in patch.has THEN patch.detailedScreens ELSE @,
            !.trussOffset =
                IF "trussOffset" \in patch.has THEN [x |-> patch.trussX, z |-> patch.trussZ] ELSE @]

\* { ...current, ...partial, modules: mergeModules(current.modules, partial.modules) }
MergeConfig(current, patch) ==
    LET m == mergeModules(current, patch)
    IN  [m EXCEPT !.width = IF "width" \in patch.has THEN patch.width ELSE @,
                  !.depth = IF "depth" \in patch.has THEN patch.depth ELSE @,
                  !.type = IF "type" \in patch.has THEN patch.type ELSE @]

Ctr(id, variant, w, d, x, z) ==
    [id |-> id, variant |-> variant, w |-> w, d |-> d, x |-> x, z |-> z]
Scr(id, mount, wallSide, w, h, t, x, z) ==
    [id |-> id, mount |-> mount, wallSide |-> wallSide, w |-> w, h |-> h, t |-> t,
     x |-> x, z |-> z, heightFromFloor |-> Nil]

presetConfigs(preset) ==
    LET base == [width |-> 30000, depth |-> 30000, height |-> 25000, raised |-> FALSE,
                 trussHeight |-> Nil, type |-> "row", storageRoom |-> FALSE,
                 cabin |-> NoCabin, countersDetailed |-> <<>>, detailedScreens |-> <<>>,
                 truss |-> FALSE, trussOffset |-> [x |-> Nil, z |-> Nil],
                 collisionClearance |-> Nil, counterVariant |-> "basic"]
    IN  IF preset = "small" THEN base
        ELSE IF preset = "medium"
        THEN [base EXCEPT !.width = 60000, !.depth = 40000, !.type = "corner",
                          !.storageRoom = TRUE, !.counterVariant = "nil"]
        ELSE [base EXCEPT !.width = 80000, !.depth = 50000, !.type = "head",
                          !.storageRoom = TRUE, !.truss = TRUE, !.raised = TRUE,
                          !.counterVariant = "nil"]

PresetNames == {"small", "medium", "premium"}

collisionPlayground ==
    [width |-> 60000, depth |-> 40000, height |-> 25000, raised |-> FALSE,
     trussHeight |-> 32000, type |-> "corner", storageRoom |-> TRUE,
     cabin |-> [present |-> TRUE, enabled |-> TRUE, width |-> 20000, depth |-> 16000,
                x |-> 0 - 16000, z |-> 0 - 12000],
     countersDetailed |->
        << Ctr("ctr-demo-1", "premium", 14000, 6000, 0 - 14000, 12000),
           Ctr("ctr-demo-2", "basic", 9000, 5000, 0 - 1000, 13000),
           Ctr("ctr-demo-3", "corner", 12000, 9000, 13000, 9000) >>,
     detailedScreens |->
        << Scr("scr-demo-back", "wall", "back", 12000, 7000, 600, 0, 0 - 19000),
           Scr("scr-demo-floor", "floor", "nil", 10000, 6000, 1200, 12000, 0 - 8000) >>,
     truss |-> TRUE, trussOffset |-> [x |-> 4000, z |-> 2000],
     collisionClearance |-> 2500, counterVariant |-> "premium"]

initial == normalizeConfig(presetConfigs("small"))

\* ------------------------------------------------------------------------
\* store/configStore.ts with object identity
\* normalizeConfig copies the modules object but writes cabin.enabled,
\* cabin.height and floor.raised into the cabin and floor objects it was
\* handed, and mergeModules returns its base when there is no module patch.
\* The configurations of the store therefore keep their cabin and floor by
\* reference into a heap: cabin |-> index into heap.cabins, floor |-> index
\* into heap.floors, 0 for an absent object.
\* ------------------------------------------------------------------------
NoHeap == [cabins |-> <<>>, floors |-> <<>>]

\* F of the value of v, which is computed once
With(v, F(_)) == CHOOSE r \in { F(x) : x \in {v} } : TRUE

RefConfig(width, depth, height, type, storageRoom, raisedFloor) ==
    [width |-> width, depth |-> depth, height |-> height, type |-> type,
     storageRoom |-> storageRoom, raisedFloor |-> raisedFloor, cabin |-> 0, floor |-> 0]

\* presetConfigs: no preset carries a cabin or a floor object
presetRefConfigs(preset) ==
    IF preset = "small" THEN RefConfig(30000, 30000, 25000, "row", FALSE, FALSE)
    ELSE IF preset = "medium" THEN RefConfig(60000, 40000, 25000, "corner", TRUE, FALSE)
    ELSE RefConfig(80000, 50000, 25000, "head", TRUE, TRUE)

\* normalizeConfig: the configuration it returns and the heap it leaves
storageActive_anyType(cfg) == cfg.storageRoom

\* modules.storageRoom = false without a back wall, then
\* storageActive = !!modules.storageRoom
storageActive(cfg) == wallFixedMap(cfg.type) >= 1 /\ cfg.storageRoom

normalizeConfigRef(cfg, heap) ==
    LET baseHeight == OrElse(cfg.height, 25000)
        hasBack == wallFixedMap(cfg.type) >= 1
        \* (modules.cabin as CabinWithPosition).enabled = false
        h1 == IF ~hasBack /\ cfg.cabin # 0
              THEN [heap EXCEPT !.cabins[cfg.cabin].enabled = FALSE]
              ELSE heap
        \* modules.floor = { type, raised }, or modules.floor.raised = true
        h2 == IF cfg.floor = 0
              THEN [h1 EXCEPT !.floors = Append(@, [raised |-> cfg.raisedFloor])]
              ELSE IF cfg.raisedFloor /\ ~h1.floors[cfg.floor].raised
              THEN [h1 EXCEPT !.floors[cfg.floor].raised = TRUE]
              ELSE h1
        floor == IF cfg.floor = 0 THEN Len(h2.floors) ELSE cfg.floor
        \* modules.cabin = { enabled, 1.5, 1.5, baseHeight }, or
        \* modules.cabin.height = baseHeight and modules.cabin.enabled = storageActive
        h3 == IF cfg.cabin = 0
              THEN [h2 EXCEPT !.cabins =
                       Append(@, [enabled |-> storageActive(cfg), width |-> 15000, depth |-> 15000,
                                  height |-> baseHeight, x |-> Nil, z |-> Nil])]
              ELSE [h2 EXCEPT !.cabins[cfg.cabin].height = baseHeight,
                              !.cabins[cfg.cabin].enabled = storageActive(cfg)]
        cabin0 == IF cfg.cabin = 0 THEN Len(h3.cabins) ELSE cfg.cabin
        \* modules.cabin = { ...cabin, position: pos }
        h4 == IF h3.cabins[cabin0].enabled
              THEN LET pos == clampCabinPosition(cfg, h3.cabins[cabin0])
                   IN  [h3 EXCEPT !.cabins =
                           Append(@, [h3.cabins[cabin0] EXCEPT !.x = pos.x, !.z = pos.z])]
              ELSE h3
        cabin == IF h3.cabins[cabin0].enabled THEN Len(h4.cabins) ELSE cabin0
    IN  [config |-> [cfg EXCEPT !.storageRoom = storageActive(cfg), !.floor = floor,
                                !.cabin = cabin],
         heap |-> h4]

\* a setConfig argument: `has` names the top-level and module fields it
\* carries, cabinHas the fields of its modules.cabin, floorHas those of its
\* modules.floor
NoPartial ==
    [has |-> {}, width |-> Nil, depth |-> Nil, height |-> Nil, type |-> "nil",
     storageRoom |-> FALSE, raisedFloor |-> FALSE,
     cabinHas |-> {}, cabinWidth |-> Nil, cabinDepth |-> Nil, cabinX |-> Nil, cabinZ |-> Nil,
     floorHas |-> {}, floorRaised |-> FALSE]

ModuleFields == {"storageRoom", "raisedFloor", "cabin", "floor"}

\* mergeModules(base, patch): without a module patch the base itself, else a
\* copy with a new floor object when patch.floor is given and a new cabin
\* object when patch.cabin is given
mergeModulesRef(cfg, partial, heap) ==
    IF partial.has \cap ModuleFields = {} THEN [config |-> cfg, heap |-> heap]
    ELSE
    LET h1 == IF "floor" \in partial.has
              THEN LET base == IF cfg.floor = 0 THEN [raised |-> FALSE]
                               ELSE heap.floors[cfg.floor]
                   IN  [heap EXCEPT !.floors =
                           Append(@, [base EXCEPT !.raised =
                                        IF "raised" \in partial.floorHas
                                        THEN partial.floorRaised ELSE @])]
              ELSE heap
        floor == IF "floor" \in partial.has THEN Len(h1.floors) ELSE cfg.floor
        h2 == IF "cabin" \in partial.has
              THEN LET base == IF cfg.cabin = 0
                               THEN [enabled |-> FALSE, width |-> Nil, depth |-> Nil,
                                     height |-> Nil, x |-> Nil, z |-> Nil]
                               ELSE heap.cabins[cfg.cabin]
                   IN  [h1 EXCEPT !.cabins =
                           Append(@, [base EXCEPT
                              !.width = IF "width" \in partial.cabinHas
                                        THEN partial.cabinWidth ELSE @,
                              !.depth = IF "depth" \in partial.cabinHas
                                        THEN partial.cabinDepth ELSE @,
                              !.x = IF "position" \in partial.cabinHas
                                    THEN Dflt(partial.cabinX, @) ELSE @,
                              !.z = IF "position" \in partial.cabinHas
                                    THEN Dflt(partial.cabinZ, @) ELSE @])]
              ELSE h1
        cabin == IF "cabin" \in partial.has THEN Len(h2.cabins) ELSE cfg.cabin
    IN  [config |-> [cfg EXCEPT
                        !.storageRoom = IF "storageRoom" \in partial.has
                                        THEN partial.storageRoom ELSE @,
                        !.raisedFloor = IF "raisedFloor" \in partial.has
                                        THEN partial.raisedFloor ELSE @,
                        !.floor = floor, !.cabin = cabin],
         heap |-> h2]

\* { ...current, ...partial, modules: mergeModules(current.modules, partial.modules) }
MergeRefConfig(current, partial, heap) ==
    LET m == mergeModulesRef(current, partial, heap)
    IN  [m EXCEPT !.config.width = IF "width" \in partial.has THEN partial.width ELSE @,
                  !.config.depth = IF "depth" \in partial.has THEN partial.depth ELSE @,
                  !.config.height = IF "height" \in partial.has THEN partial.height ELSE @,
                  !.config.type = IF "type" \in partial.has THEN partial.type ELSE @]

\* the configuration with its cabin and floor objects read out of the heap
Deep(cfg, heap) ==
    [cfg EXCEPT !.cabin = IF cfg.cabin = 0 THEN <<>> ELSE <<heap.cabins[cfg.cabin]>>,
                !.floor = IF cfg.floor = 0 THEN <<>> ELSE <<heap.floors[cfg.floor]>>]

DeepSeq(cfgs, heap) == [i \in 1..Len(cfgs) |-> Deep(cfgs[i], heap)]

\* the configuration as StandMesh and buildSceneAabbs read it
View(cfg, heap) ==
    [width |-> cfg.width, depth |-> cfg.depth, height |-> cfg.height,
     raised |-> IF cfg.floor # 0 THEN heap.floors[cfg.floor].raised ELSE cfg.raisedFloor,
     trussHeight |-> Nil, type |-> cfg.type, storageRoom |-> cfg.storageRoom,
     cabin |-> IF cfg.cabin = 0 THEN NoCabin
               ELSE LET c == heap.cabins[cfg.cabin]
                    IN  [present |-> TRUE, enabled |-> c.enabled, width |-> c.width,
                         depth |-> c.depth, x |-> c.x, z |-> c.z],
     countersDetailed |-> <<>>, detailedScreens |-> <<>>,
     truss |-> FALSE, trussOffset |-> [x |-> Nil, z |-> Nil],
     collisionClearance |-> Nil, counterVariant |-> "nil"]

\* ------------------------------------------------------------------------
\* lib/pricing.ts: calcPrice for region NRW without rush, on the fields the
\* store model keeps.  Lengths enter in decimetres, so an area times a price
\* per square metre is an amount in cents; the result is in euros.
\* ------------------------------------------------------------------------
HOURLY_RATE_OWN == 60
DAY_RATE_10H == 550
BASE_MATERIAL_PER_M2 == 110
STORAGE_ROOM_FLAT == 600
RAISED_FLOOR_SURCHARGE_PER_M2 == 45
CABIN_PRICE_PER_M2 == 360
CABIN_DOOR_PRICE == 220
TRAVEL_COST_NRW == 250

\* hours = area * 1.2; from 9 hours on, day rates of 10 hours
calcLaborCost(area) ==
    LET hours == (area * 12) \div 10
    IN  IF hours >= 900 THEN ((hours + 999) \div 1000) * DAY_RATE_10H * 100
        ELSE hours * HOURLY_RATE_OWN

\* d is a configuration with its cabin and floor objects (Deep)
calcLegacyModuleCost(d, area) ==
    LET useLegacyCabin == d.cabin = <<>> \/ ~d.cabin[1].enabled
        useLegacyRaised == d.floor = <<>> \/ ~d.floor[1].raised
    IN  (IF useLegacyCabin /\ d.storageRoom THEN STORAGE_ROOM_FLAT * 100 ELSE 0)
          + (IF useLegacyRaised /\ d.raisedFloor THEN RAISED_FLOOR_SURCHARGE_PER_M2 * area ELSE 0)

calcFloorCost(d, area) ==
    IF d.floor # <<>> /\ d.floor[1].raised THEN area * RAISED_FLOOR_SURCHARGE_PER_M2 ELSE 0

\* one door, as normalizeConfig always sets doorSide
calcCabinCost(d) ==
    IF d.cabin = <<>> \/ ~d.cabin[1].enabled THEN 0
    ELSE LET cabin == d.cabin[1]
             area == (Dflt(cabin.width, 0) \div 1000) * (Dflt(cabin.depth, 0) \div 1000)
             sum == area * CABIN_PRICE_PER_M2 + CABIN_DOOR_PRICE * 100
             extraHeight == (Dflt(cabin.height, 0) - 25000) \div 1000
         IN  IF extraHeight > 0 THEN sum + (sum * extraHeight * 8) \div 1000 ELSE sum

calcPrice(d) ==
    LET area == (d.width \div 1000) * (d.depth \div 1000)
        sum == area * BASE_MATERIAL_PER_M2 + calcLaborCost(area)
                 + calcLegacyModuleCost(d, area) + calcFloorCost(d, area) + calcCabinCost(d)
                 + TRAVEL_COST_NRW * 100
    IN  ((sum * 108) \div 100 + 50) \div 100

\* withNormalized(cfg) on a heap
withNormalized(cfg, heap) ==
    With(<<cfg, heap>>, LAMBDA arg :
    With(normalizeConfigRef(arg[1], arg[2]), LAMBDA n :
    With(Deep(n.config, n.heap), LAMBDA d :
        [config |-> n.config, price |-> calcPrice(d), heap |-> n.heap])))

initialStore ==
    LET n == withNormalized(presetRefConfigs("small"), NoHeap)
    IN  [config |-> n.config, price |-> n.price, history |-> <<>>, future |-> <<>>,
         heap |-> n.heap]

\* the last store action and what it returned
NoOp == [op |-> "none", ok |-> TRUE]

\* ------------------------------------------------------------------------
\* State
\* ------------------------------------------------------------------------
VARIABLES
    config,              \* store: committed configuration
    history,             \* store: undo stack
    future,              \* store: redo stack
    lastValidPositions,  \* StandMesh state: RollbackCache, key -> position
    collidingKeys,       \* StandMesh state: keys flagged as colliding
    selectedKey,         \* StandMesh state: selected key or "none"
    dragging,            \* TransformControls: a drag is in progress
    pos,                 \* position of the enabled Transformable group
    posY,                \* height (y) of the enabled Transformable group
    rConfig,             \* configuration of the last render (closed over by handlers)
    rLastValid,          \* lastValidPositions of the last render (closed over)
    edits,               \* number of history pushes so far
    drags,               \* number of drags started so far
    lastTick,            \* outcome of the last handled tick (observation only)
    geo,                 \* pure-function harness: last call and its result
    store,               \* store with object identity: config, price, history, future, heap
    lastOp               \* last action on `store` (observation only)

storeVars == <<config, history, future>>
uiVars == <<lastValidPositions, collidingKeys, selectedKey, dragging, pos, posY, rConfig,
           rLastValid>>
vars == <<config, history, future, lastValidPositions, collidingKeys, selectedKey,
          dragging, pos, posY, rConfig, rLastValid, edits, drags, lastTick, geo,
          store, lastOp>>

\* ------------------------------------------------------------------------
\* Bounds
\* ------------------------------------------------------------------------
MaxEdits == 2
MaxDrags == 1
MaxIndexLen == 3
MaxCandidates == 2
MaxStoreEdits == 2
MaxPushes == 21
MaxRedoDepth == 3

Origin == [x |-> 0, z |-> 0]
P(x, z) == [x |-> x, z |-> z]

\* pointer positions a tick can deliver
RawPos == { P(15500, 0 - 30000), P(0 - 1000, 13000), P(0 - 3000, 3000), P(0 - 8000, 0 - 4000) }

\* configurations handed to createStandScene: a 6 x 4 m corner stand with a
\* screen on the left wall and a truss-mounted screen
SceneConfigs ==
    { [width |-> 60000, depth |-> 40000, height |-> 25000, raised |-> FALSE,
       trussHeight |-> Nil, type |-> "corner", storageRoom |-> FALSE,
       cabin |-> NoCabin, countersDetailed |-> <<>>,
       detailedScreens |->
          << Scr("scr-left", "wall", "left", 12000, 7000, 600, 0 - 29300, 0),
             [Scr("scr-truss", "truss", "nil", 10000, 6000, 1200, 10000, 5000)
                 EXCEPT !.heightFromFloor = 22000] >>,
       truss |-> FALSE, trussOffset |-> [x |-> Nil, z |-> Nil],
       collisionClearance |-> Nil, counterVariant |-> "basic"] }

\* values typed into the sidebar's cabin position inputs
SidebarValues == { 0 }

NoTick == [key |-> "none", target |-> Origin, clamped |-> FALSE, collided |-> FALSE, stale |-> FALSE,
           hit |-> "none", boxes |-> <<>>, scene |-> <<>>]
NoGeo == [op |-> "none"]

\* ------------------------------------------------------------------------
\* components/Configurator3D.tsx: StandMesh derived values
\* ------------------------------------------------------------------------
collisionClearance(cfg) == Max(0, Dflt(cfg.collisionClearance, DEFAULT_CLEARANCE))

cabinEnabled(cfg) == cfg.cabin.present /\ cfg.cabin.enabled
cabinWidth(cfg) == Dflt(cfg.cabin.width, 15000)
cabinDepth(cfg) == Dflt(cfg.cabin.depth, 15000)
cabinPosX(cfg) == Dflt(cfg.cabin.x, (0 - cfg.width) \div 2 + cabinWidth(cfg) \div 2 + 2500)
cabinPosZ(cfg) == Dflt(cfg.cabin.z, (0 - cfg.depth) \div 2 + cabinDepth(cfg) \div 2 + 2500)
trussOffsetX(cfg) == Dflt(cfg.trussOffset.x, 0)
trussOffsetZ(cfg) == Dflt(cfg.trussOffset.z, 0)

\* floorConfig?.raised ?? modules.raisedFloor ?? false, after normalizeConfig
floorHeight(cfg) == IF cfg.raised THEN 800 ELSE 250

trussHeight(cfg) ==
    LET defaultTrussHeight == floorHeight(cfg) + cfg.height + 5000
    IN  Max(defaultTrussHeight, Dflt(cfg.trussHeight, defaultTrussHeight))

backWallFrontZ(cfg) == (0 - cfg.depth) \div 2 + wallThickness + panelGap
leftWallInnerX(cfg) == (0 - cfg.width) \div 2 + wallThickness + panelGap
rightWallInnerX(cfg) == cfg.width \div 2 - wallThickness - panelGap

sceneAabbs_memoOnce(cfg) == buildSceneAabbs(initial, collisionClearance(initial))

sceneAabbs(cfg) == buildSceneAabbs(cfg, collisionClearance(cfg))

\* keys of the entities a configuration places (validKeys of the selection effect)
ValidKeys(cfg) ==
    (IF cabinEnabled(cfg) THEN {"cabin"} ELSE {})
      \cup (IF cfg.truss THEN {"truss"} ELSE {})
      \cup { CtrKey(cfg.countersDetailed[i].id) : i \in 1..Len(cfg.countersDetailed) }
      \cup { ScrKey(cfg.detailedScreens[i].id) : i \in 1..Len(cfg.detailedScreens) }

\* committed position of the entity with the given key
StoredPos(cfg, key) ==
    IF key = "cabin" THEN P(cabinPosX(cfg), cabinPosZ(cfg))
    ELSE IF key = "truss" THEN P(trussOffsetX(cfg), trussOffsetZ(cfg))
    ELSE IF \E i \in 1..Len(cfg.countersDetailed) : CtrKey(cfg.countersDetailed[i].id) = key
    THEN LET i == CHOOSE i \in 1..Len(cfg.countersDetailed) :
                      CtrKey(cfg.countersDetailed[i].id) = key
         IN  P(Dflt(cfg.countersDetailed[i].x, 0), Dflt(cfg.countersDetailed[i].z, 0))
    ELSE LET i == CHOOSE i \in 1..Len(cfg.detailedScreens) :
                      ScrKey(cfg.detailedScreens[i].id) = key
         IN  P(Dflt(cfg.detailedScreens[i].x, 0), Dflt(cfg.detailedScreens[i].z, 0))

\* the seed effect's `next`
SeedPositions_noTruss(cfg) == [k \in ValidKeys(cfg) \ {"truss"} |-> StoredPos(cfg, k)]

SeedPositions(cfg) == [k \in ValidKeys(cfg) |-> StoredPos(cfg, k)]

getFallbackPosition(cache, key, fallback) ==
    IF key \in DOMAIN cache THEN cache[key] ELSE fallback

rememberValidPosition_dropped(cache, key, p) == cache

rememberValidPosition_clear(cache, key, p) == [k \in {key} |-> p]

rememberValidPosition(cache, key, p) ==
    [k \in (DOMAIN cache) \cup {key} |-> IF k = key THEN p ELSE cache[k]]

setCollisionState(keys, key, collided) ==
    IF collided THEN keys \cup {key} ELSE keys \ {key}

ensureNoCollision_keyOnly(cfg, key, boxes, ignoreIds) ==
    findCollisionForMany(boxes, sceneAabbs(cfg), {key})

\* ensureNoCollision's test, against the scene index of the rendered configuration
ensureNoCollision(cfg, key, boxes, ignoreIds) ==
    findCollisionForMany(boxes, sceneAabbs(cfg), {key} \cup ignoreIds)

\* ------------------------------------------------------------------------
\* store/configStore.ts: actions
\* ------------------------------------------------------------------------
pushHistory_uncut(h, cfg) == Append(h, cfg)

pushHistory(h, cfg) ==
    LET next == Append(h, cfg)
    IN  IF Len(next) > historyLimit
        THEN SubSeq(next, Len(next) - historyLimit + 1, Len(next))
        ELSE next

\* setConfig(partial): pushHistory, merge, applyFinal
StoreSetConfig(patch) ==
    /\ history' = pushHistory(history, config)
    /\ future' = <<>>
    /\ config' = normalizeConfig(MergeConfig(config, patch))
    /\ edits' = edits + 1

\* ------------------------------------------------------------------------
\* components/Configurator3D.tsx: one pointer-move tick (objectChange)
\* The handler belongs to the last render: it reads rConfig and rLastValid,
\* while its state updates and setConfig act on the current state.
\* ------------------------------------------------------------------------
DragTick(key, raw, c, boxes, ignoreIds, fallback, patch, y) ==
    LET collision == ensureNoCollision(rConfig, key, boxes, ignoreIds)
        tick == [key |-> key, target |-> c, clamped |-> (c # raw), collided |-> collision.collided,
                 stale |-> (rConfig # config \/ rLastValid # lastValidPositions),
                 hit |-> collision.hit.id, boxes |-> boxes, scene |-> sceneAabbs(rConfig)]
    IN  /\ selectedKey = key
        /\ dragging
        /\ lastTick' = tick
        /\ posY' = y
        /\ collidingKeys' = setCollisionState(collidingKeys, key, collision.collided)
        /\ IF collision.collided
           THEN /\ pos' = getFallbackPosition(rLastValid, key, fallback)
                /\ UNCHANGED <<config, history, future, edits, lastValidPositions>>
           ELSE /\ edits < MaxEdits
                /\ lastValidPositions' = rememberValidPosition(lastValidPositions, key, c)
                /\ pos' = c
                /\ StoreSetConfig(patch)
        /\ UNCHANGED <<selectedKey, dragging, rConfig, rLastValid, drags, geo, store, lastOp>>

CabinTick(raw) ==
    /\ cabinEnabled(rConfig)
    /\ LET c == clampXZ(raw.x, raw.z, rConfig.width, rConfig.depth,
                        cabinWidth(rConfig) \div 2, cabinDepth(rConfig) \div 2)
           candidate == makeAabb("cabin", "Kabine", c.x, c.z, cabinWidth(rConfig),
                                 cabinDepth(rConfig), collisionClearance(rConfig))
       IN  DragTick("cabin", raw, c, <<candidate>>, {},
                    P(cabinPosX(rConfig), cabinPosZ(rConfig)),
                    [NoPatch EXCEPT !.has = {"cabin", "cabinX", "cabinZ"},
                                    !.cabinX = c.x, !.cabinZ = c.z],
                    posY)

CounterTick(i, raw) ==
    /\ i \in 1..Len(rConfig.countersDetailed)
    /\ LET ctr == rConfig.countersDetailed[i]
           w == CounterW(rConfig, ctr)
           d == CounterD(rConfig, ctr)
           key == CtrKey(ctr.id)
           c == clampXZ(raw.x, raw.z, rConfig.width, rConfig.depth, w \div 2, d \div 2)
           candidate == makeAabb(key, "Counter", c.x, c.z, w, d, collisionClearance(rConfig))
           next == [j \in 1..Len(rConfig.countersDetailed) |->
                       IF rConfig.countersDetailed[j].id = ctr.id
                       THEN [rConfig.countersDetailed[j] EXCEPT !.x = c.x, !.z = c.z]
                       ELSE rConfig.countersDetailed[j]]
       IN  DragTick(key, raw, c, <<candidate>>, {},
                    P(Dflt(ctr.x, 0), Dflt(ctr.z, 0)),
                    [NoPatch EXCEPT !.has = {"countersDetailed"}, !.countersDetailed = next],
                    posY)

\* position a screen is rendered at (px, pz after the per-mount clamping)
ScreenRenderPos(cfg, scr) ==
    LET w == Dflt(scr.w, 9000)
        h == Dflt(scr.h, 5500)
        t == Dflt(scr.t, 200)
        mount == ScreenMount(scr)
        side == ScreenSide(scr)
        px == Dflt(scr.x, 0)
        pz == Dflt(scr.z, 0)
    IN  IF mount = "wall"
        THEN IF side = "back"
             THEN P(clampXZ(px, backWallFrontZ(cfg), cfg.width, cfg.depth, w \div 2, wallEps).x,
                    backWallFrontZ(cfg))
             ELSE IF side = "left"
             THEN P(leftWallInnerX(cfg),
                    clampXZ(leftWallInnerX(cfg), pz, cfg.width, cfg.depth, wallEps, h \div 2).z)
             ELSE P(rightWallInnerX(cfg),
                    clampXZ(rightWallInnerX(cfg), pz, cfg.width, cfg.depth, wallEps, h \div 2).z)
        ELSE IF mount = "floor"
        THEN LET c == clampXZ(px, pz, cfg.width, cfg.depth, w \div 2, t \div 2) IN P(c.x, c.z)
        ELSE P(px, pz)

\* normalized position and candidate footprint of a screen tick
ScreenTarget(cfg, scr, raw) ==
    LET w == Dflt(scr.w, 9000)
        h == Dflt(scr.h, 5500)
        t == Dflt(scr.t, 200)
        mount == ScreenMount(scr)
        side == ScreenSide(scr)
    IN  IF mount = "wall"
        THEN IF side = "back"
             THEN [x |-> clampXZ(raw.x, backWallFrontZ(cfg), cfg.width, cfg.depth,
                                 w \div 2, wallEps).x,
                   z |-> backWallFrontZ(cfg), candidateW |-> w, candidateD |-> t]
             ELSE IF side = "left"
             THEN [x |-> leftWallInnerX(cfg),
                   z |-> clampXZ(leftWallInnerX(cfg), raw.z, cfg.width, cfg.depth,
                                 wallEps, h \div 2).z,
                   candidateW |-> t, candidateD |-> w]
             ELSE [x |-> rightWallInnerX(cfg),
                   z |-> clampXZ(rightWallInnerX(cfg), raw.z, cfg.width, cfg.depth,
                                 wallEps, h \div 2).z,
                   candidateW |-> t, candidateD |-> w]
        ELSE LET c == clampXZ(raw.x, raw.z, cfg.width, cfg.depth, w \div 2, t \div 2)
             IN  [x |-> c.x, z |-> c.z, candidateW |-> w, candidateD |-> t]

\* rotationY the screen is rendered with for its wall side, in degrees
ScreenRotY(scr) ==
    IF ScreenMount(scr) = "wall"
    THEN IF ScreenSide(scr) = "back" THEN 0
         ELSE IF ScreenSide(scr) = "left" THEN 90 ELSE 0 - 90
    ELSE 0

\* nextY of the screen handler: the rendered height, or for a truss-mounted
\* screen the group's own y clamped between floor and truss
ScreenNextY(cfg, scr, y) ==
    LET h == Dflt(scr.h, 5500)
        local == Dflt(scr.heightFromFloor, floorHeight(cfg) + 16000) - floorHeight(cfg)
    IN  IF ScreenMount(scr) = "truss"
        THEN clampValue(y, floorHeight(cfg) + h \div 2, trussHeight(cfg) - h \div 2)
        ELSE floorHeight(cfg) + local

ScreenTick(i, raw) ==
    /\ i \in 1..Len(rConfig.detailedScreens)
    /\ LET scr == rConfig.detailedScreens[i]
           key == ScrKey(scr.id)
           n == ScreenTarget(rConfig, scr, raw)
           candidate == makeAabb(key, "Screen", n.x, n.z, n.candidateW, n.candidateD,
                                 collisionClearance(rConfig))
           nextY == ScreenNextY(rConfig, scr, posY)
           next == [j \in 1..Len(rConfig.detailedScreens) |->
                       IF rConfig.detailedScreens[j].id = scr.id
                       THEN [rConfig.detailedScreens[j] EXCEPT
                                !.x = n.x, !.z = n.z,
                                !.heightFromFloor =
                                    IF ScreenMount(scr) = "truss" THEN nextY ELSE @]
                       ELSE rConfig.detailedScreens[j]]
       IN  DragTick(key, raw, P(n.x, n.z), <<candidate>>, {},
                    ScreenRenderPos(rConfig, scr),
                    [NoPatch EXCEPT !.has = {"detailedScreens"}, !.detailedScreens = next],
                    nextY)

TrussTick(raw) ==
    /\ rConfig.truss
    /\ LET c == clampXZ(raw.x, raw.z, rConfig.width, rConfig.depth,
                        trussHandleHalf, trussHandleHalf)
           ps == TrussColumnPositions(rConfig.width, rConfig.depth, c.x, c.z)
           candidates == [k \in 1..4 |->
                             makeAabb(TrussColIds[k], "Truss-Stuetze", ps[k][1], ps[k][2],
                                      columnSize, columnSize, collisionClearance(rConfig))]
           ignoreSelf == { TrussColIds[k] : k \in 1..4 }
       IN  DragTick("truss", raw, c, candidates, ignoreSelf,
                    P(trussOffsetX(rConfig), trussOffsetZ(rConfig)),
                    [NoPatch EXCEPT !.has = {"trussOffset"}, !.trussX = c.x, !.trussZ = c.z],
                    posY)

\* ------------------------------------------------------------------------
\* Selection and drag lifecycle (Transformable, StandMesh)
\* ------------------------------------------------------------------------
RenderPending == rConfig # config \/ rLastValid # lastValidPositions

\* click on an entity's group: setSelectedKey(key); its Transformable is
\* remounted with TransformControls, the wrapped group starts at the origin
Select(key) ==
    /\ ~dragging
    /\ ~RenderPending
    /\ key \in ValidKeys(rConfig)
    /\ selectedKey # key
    /\ selectedKey' = key
    /\ pos' = Origin
    /\ posY' = 0
    /\ lastTick' = NoTick
    /\ UNCHANGED <<config, history, future, edits, lastValidPositions, collidingKeys,
                   dragging, rConfig, rLastValid, drags, geo, store, lastOp>>

\* Escape, click on the floor or onPointerMissed: setSelectedKey(null);
\* the TransformControls are unmounted, which also ends a drag in progress
Deselect ==
    /\ selectedKey # "none"
    /\ selectedKey' = "none"
    /\ dragging' = FALSE
    /\ pos' = Origin
    /\ posY' = 0
    /\ lastTick' = NoTick
    /\ UNCHANGED <<config, history, future, edits, lastValidPositions, collidingKeys,
                   rConfig, rLastValid, drags, geo, store, lastOp>>

\* mouseDown / dragging-changed(true): onDragStart = disableOrbit
DragStart ==
    /\ selectedKey # "none"
    /\ ~dragging
    /\ ~RenderPending
    /\ drags < MaxDrags
    /\ dragging' = TRUE
    /\ drags' = drags + 1
    /\ lastTick' = NoTick
    /\ UNCHANGED <<config, history, future, edits, lastValidPositions, collidingKeys,
                   selectedKey, pos, posY, rConfig, rLastValid, geo, store, lastOp>>

\* mouseUp / dragging-changed(false): onDragEnd = enableOrbit
DragEnd ==
    /\ dragging
    /\ dragging' = FALSE
    /\ lastTick' = NoTick
    /\ UNCHANGED <<config, history, future, edits, lastValidPositions, collidingKeys,
                   selectedKey, pos, posY, rConfig, rLastValid, drags, geo, store, lastOp>>

\* re-render of StandMesh followed by its effects: the handlers now close over
\* the current configuration; the seed effect re-seeds the cache when its
\* dependencies changed; the selection effect deselects a vanished entity
Render ==
    /\ RenderPending
    /\ rConfig' = config
    /\ lastValidPositions' =
          IF rConfig # config THEN SeedPositions(config) ELSE lastValidPositions
    /\ rLastValid' = lastValidPositions'
    /\ IF selectedKey # "none" /\ selectedKey \notin ValidKeys(config)
       THEN selectedKey' = "none" /\ dragging' = FALSE /\ pos' = Origin /\ posY' = 0
       ELSE UNCHANGED <<selectedKey, dragging, pos, posY>>
    /\ lastTick' = NoTick
    /\ UNCHANGED <<config, history, future, edits, collidingKeys, drags, geo, store, lastOp>>

\* ------------------------------------------------------------------------
\* Sidebar and store operations
\* ------------------------------------------------------------------------
ApplyPreset(preset) ==
    /\ ~dragging
    /\ ~RenderPending
    /\ edits < MaxEdits
    /\ history' = pushHistory(history, config)
    /\ future' = <<>>
    /\ config' = normalizeConfig(presetConfigs(preset))
    /\ edits' = edits + 1
    /\ lastTick' = NoTick
    /\ UNCHANGED <<lastValidPositions, collidingKeys, selectedKey, dragging, pos, posY,
                   rConfig, rLastValid, drags, geo, store, lastOp>>

\* "Kollisions-Playground" button: replaceConfig(collisionPlayground)
LoadPlayground ==
    /\ ~dragging
    /\ ~RenderPending
    /\ edits < MaxEdits
    /\ history' = pushHistory(history, config)
    /\ future' = <<>>
    /\ config' = normalizeConfig(collisionPlayground)
    /\ edits' = edits + 1
    /\ lastTick' = NoTick
    /\ UNCHANGED <<lastValidPositions, collidingKeys, selectedKey, dragging, pos, posY,
                   rConfig, rLastValid, drags, geo, store, lastOp>>

\* createStandScene(config): replaceConfig(config)
CreateStandScene(scene) ==
    /\ ~dragging
    /\ ~RenderPending
    /\ edits < MaxEdits
    /\ history' = pushHistory(history, config)
    /\ future' = <<>>
    /\ config' = normalizeConfig(scene)
    /\ edits' = edits + 1
    /\ lastTick' = NoTick
    /\ UNCHANGED <<lastValidPositions, collidingKeys, selectedKey, dragging, pos, posY,
                   rConfig, rLastValid, drags, geo, store, lastOp>>

\* "Kabine X-Position" input: patchModules({ cabin: { position: { x } } })
SidebarCabinX(v) ==
    /\ ~dragging
    /\ ~RenderPending
    /\ edits < MaxEdits
    /\ config.storageRoom
    /\ StoreSetConfig([NoPatch EXCEPT !.has = {"cabin", "cabinX"}, !.cabinX = v])
    /\ lastTick' = NoTick
    /\ UNCHANGED <<lastValidPositions, collidingKeys, selectedKey, dragging, pos, posY,
                   rConfig, rLastValid, drags, geo, store, lastOp>>

\* "Kabine Z-Position" input: patchModules({ cabin: { position: { z } } })
SidebarCabinZ(v) ==
    /\ ~dragging
    /\ ~RenderPending
    /\ edits < MaxEdits
    /\ config.storageRoom
    /\ StoreSetConfig([NoPatch EXCEPT !.has = {"cabin", "cabinZ"}, !.cabinZ = v])
    /\ lastTick' = NoTick
    /\ UNCHANGED <<lastValidPositions, collidingKeys, selectedKey, dragging, pos, posY,
                   rConfig, rLastValid, drags, geo, store, lastOp>>

Undo ==
    /\ ~dragging
    /\ ~RenderPending
    /\ Len(history) > 0
    /\ history' = SubSeq(history, 1, Len(history) - 1)
    /\ future' = <<config>> \o future
    /\ config' = normalizeConfig(history[Len(history)])
    /\ lastTick' = NoTick
    /\ UNCHANGED <<edits, lastValidPositions, collidingKeys, selectedKey, dragging, pos, posY,
                   rConfig, rLastValid, drags, geo, store, lastOp>>

Redo ==
    /\ ~dragging
    /\ ~RenderPending
    /\ Len(future) > 0
    /\ history' = Append(history, config)
    /\ future' = Tail(future)
    /\ config' = normalizeConfig(Head(future))
    /\ lastTick' = NoTick
    /\ UNCHANGED <<edits, lastValidPositions, collidingKeys, selectedKey, dragging, pos, posY,
                   rConfig, rLastValid, drags, geo, store, lastOp>>

\* ------------------------------------------------------------------------
\* Specification of the editor
\* ------------------------------------------------------------------------
Init ==
    /\ config = initial
    /\ history = <<>>
    /\ future = <<>>
    /\ lastValidPositions = SeedPositions(initial)
    /\ collidingKeys = {}
    /\ selectedKey = "none"
    /\ dragging = FALSE
    /\ pos = Origin
    /\ posY = 0
    /\ rConfig = initial
    /\ rLastValid = SeedPositions(initial)
    /\ edits = 0
    /\ drags = 0
    /\ lastTick = NoTick
    /\ geo = NoGeo
    /\ store = initialStore
    /\ lastOp = NoOp

Next ==
    \/ \E raw \in RawPos : CabinTick(raw)
    \/ \E raw \in RawPos : \E i \in 1..Len(rConfig.countersDetailed) : CounterTick(i, raw)
    \/ \E raw \in RawPos : \E i \in 1..Len(rConfig.detailedScreens) : ScreenTick(i, raw)
    \/ \E raw \in RawPos : TrussTick(raw)
    \/ \E key \in ValidKeys(rConfig) : Select(key)
    \/ Deselect
    \/ DragStart
    \/ DragEnd
    \/ Render
    \/ \E preset \in PresetNames : ApplyPreset(preset)
    \/ LoadPlayground
    \/ \E scene \in SceneConfigs : CreateStandScene(scene)
    \/ \E v \in SidebarValues : SidebarCabinX(v)
    \/ \E v \in SidebarValues : SidebarCabinZ(v)
    \/ Undo
    \/ Redo

Spec == Init /\ [][Next]_vars

\* ------------------------------------------------------------------------
\* Harness for the pure functions: each action calls one function on inputs
\* drawn from the sets below and records the call and its result in geo
\* (one call per behaviour).
\* ------------------------------------------------------------------------
editorVars == <<config, history, future, lastValidPositions, collidingKeys, selectedKey,
                dragging, pos, posY, rConfig, rLastValid, edits, drags, lastTick>>

GeoStands == { [width |-> 60000, depth |-> 40000], [width |-> 30000, depth |-> 30000] }
GeoXs == { 0 - 40000, 0 - 29300, 0 - 25500, 0, 525, 30000, 31000 }
GeoZs == { 0 - 20000, 0 - 17500, 775, 26000 }
GeoHalves == { 0, 10, 4500, 15000, 16000 }
GeoSizes == { 0, 5000, 10000 }
GeoPaddings == { 0, 2000, 2500 }
GeoOffsets == { Nil, 0, 300 }
GeoCorners == { 0 - 2000, 0, 1000, 3000 }

GeoContext(stand) ==
    [width |-> stand.width, depth |-> stand.depth, floorHeight |-> 250,
     wallThickness |-> wallThickness, panelGap |-> panelGap]

GeoClampXZ ==
    /\ geo = NoGeo
    /\ \E stand \in GeoStands : \E x \in GeoXs : \E z \in GeoZs :
       \E halfW \in GeoHalves : \E halfD \in GeoHalves :
          geo' = [op |-> "clampXZ", x |-> x, z |-> z, width |-> stand.width,
                  depth |-> stand.depth, halfW |-> halfW, halfD |-> halfD,
                  out |-> clampXZ(x, z, stand.width, stand.depth, halfW, halfD)]
    /\ UNCHANGED <<editorVars, store, lastOp>>

GeoRulesClampXZ ==
    /\ geo = NoGeo
    /\ \E stand \in GeoStands : \E x \in GeoXs : \E z \in GeoZs :
       \E halfW \in GeoHalves : \E halfD \in GeoHalves :
          geo' = [op |-> "rulesClampXZ", x |-> x, z |-> z, width |-> stand.width,
                  depth |-> stand.depth, halfW |-> halfW, halfD |-> halfD,
                  out |-> rulesClampXZ(x, z, GeoContext(stand), halfW, halfD)]
    /\ UNCHANGED <<editorVars, store, lastOp>>

GeoMakeAabb ==
    /\ geo = NoGeo
    /\ \E x \in GeoXs : \E z \in GeoZs : \E w \in GeoSizes : \E d \in GeoSizes :
       \E p \in GeoPaddings :
          geo' = [op |-> "makeAabb", x |-> x, z |-> z, w |-> w, d |-> d, p |-> p,
                  out |-> makeAabb("box", "Box", x, z, w, d, p)]
    /\ UNCHANGED <<editorVars, store, lastOp>>

GeoBoxes ==
    { [id |-> "box", label |-> "Box", minX |-> x1, maxX |-> x2, minZ |-> z1, maxZ |-> z2] :
        x1 \in GeoCorners, x2 \in GeoCorners, z1 \in {0, 1000}, z2 \in {1000, 3000} }

GeoIntersects ==
    /\ geo = NoGeo
    /\ \E a \in { g \in GeoBoxes : g.minX <= g.maxX /\ g.minZ <= g.maxZ } :
       \E b \in { g \in GeoBoxes : g.minX <= g.maxX /\ g.minZ <= g.maxZ } :
          geo' = [op |-> "intersects", a |-> a, b |-> b,
                  out |-> intersects(a, b), rev |-> intersects(b, a)]
    /\ UNCHANGED <<editorVars, store, lastOp>>

GeoApplyInteractionRules ==
    /\ geo = NoGeo
    /\ \E key \in ProfileKeys : \E stand \in GeoStands : \E x \in GeoXs : \E z \in GeoZs :
       \E mount \in {"nil", "floor", "wall"} : \E side \in {"nil", "back", "left", "right"} :
       \E half \in {Nil, 4500} : \E away \in GeoOffsets :
          LET options == [mount |-> mount, wallSide |-> side, halfX |-> half,
                          halfZ |-> IF half = Nil THEN Nil ELSE 100,
                          along |-> Nil, away |-> away]
          IN  geo' = [op |-> "applyInteractionRules", profile |-> key, x |-> x, z |-> z,
                      width |-> stand.width, depth |-> stand.depth, options |-> options,
                      out |-> applyInteractionRules(interactionProfiles[key], P(x, z),
                                                    GeoContext(stand), options)]
    /\ UNCHANGED <<editorVars, store, lastOp>>

\* the screen handler's normalization of a pointer position, for each wall side
GeoScreenTarget ==
    /\ geo = NoGeo
    /\ \E stand \in GeoStands : \E x \in GeoXs : \E z \in GeoZs :
       \E mount \in {"nil", "floor", "wall", "truss"} :
       \E side \in {"nil", "back", "left", "right"} :
          LET cfg == [normalizeConfig(presetConfigs("medium")) EXCEPT
                         !.width = stand.width, !.depth = stand.depth]
              scr == Scr("s", mount, side, 9000, 5500, 200, 0, 0)
          IN  geo' = [op |-> "screenTarget", x |-> x, z |-> z, width |-> stand.width,
                      depth |-> stand.depth, scr |-> scr,
                      out |-> ScreenTarget(cfg, scr, P(x, z)), rot |-> ScreenRotY(scr)]
    /\ UNCHANGED <<editorVars, store, lastOp>>

\* the counter handler's collision test on the playground scene
GeoCounterTest ==
    /\ geo = NoGeo
    /\ \E i \in 1..3 : \E x \in GeoXs \cup {15500} : \E z \in GeoZs :
          LET cfg == normalizeConfig(collisionPlayground)
              ctr == cfg.countersDetailed[i]
              w == CounterW(cfg, ctr)
              d == CounterD(cfg, ctr)
              c == clampXZ(x, z, cfg.width, cfg.depth, w \div 2, d \div 2)
              candidate == makeAabb(CtrKey(ctr.id), "Counter", c.x, c.z, w, d,
                                    collisionClearance(cfg))
          IN  geo' = [op |-> "counterTest", candidate |-> candidate,
                      scene |-> sceneAabbs(cfg),
                      out |-> ensureNoCollision(cfg, CtrKey(ctr.id), <<candidate>>, {})]
    /\ UNCHANGED <<editorVars, store, lastOp>>

\* applyInteractionRules on a floor-mounted entity, and again on the position
\* the first call returned
GeoNormalizeTwice ==
    /\ geo = NoGeo
    /\ \E key \in ProfileKeys : \E stand \in GeoStands : \E x \in GeoXs : \E z \in GeoZs :
       \E mount \in {"nil", "floor"} : \E halfX \in {Nil, 4500, 4800} : \E halfZ \in {Nil, 2500} :
          LET options == [mount |-> mount, wallSide |-> "nil", halfX |-> halfX,
                          halfZ |-> halfZ, along |-> Nil, away |-> Nil]
              first == applyInteractionRules(interactionProfiles[key], P(x, z),
                                             GeoContext(stand), options)
              second == applyInteractionRules(interactionProfiles[key], first.position,
                                              GeoContext(stand), options)
          IN  geo' = [op |-> "normalizeTwice", profile |-> key, x |-> x, z |-> z,
                      width |-> stand.width, depth |-> stand.depth, options |-> options,
                      first |-> first, second |-> second]
    /\ UNCHANGED <<editorVars, store, lastOp>>

\* boxes of an index: two ids, each overlapping the probe deeply, overlapping
\* it by a sliver, touching it, or apart from it
GeoIndexBoxes ==
    { [id |-> id, label |-> "Box", minX |-> r[1], maxX |-> r[2], minZ |-> 0, maxZ |-> 2000] :
        id \in {"a", "b"},
        r \in { <<0, 2000>>, <<1900, 4000>>, <<2000, 4000>>, <<6000, 8000>> } }

\* candidates: the probe at the origin and two shifted copies
GeoProbes ==
    { [id |-> "probe", label |-> "Probe", minX |-> x, maxX |-> x + 2000,
       minZ |-> 0, maxZ |-> 2000] : x \in {0, 0 - 2000, 3900} }

GeoSeqs(S, n) == UNION { [1..m -> S] : m \in 0..n }

GeoFindCollision ==
    /\ geo = NoGeo
    /\ \E boxes \in GeoSeqs(GeoIndexBoxes, MaxIndexLen) : \E ignored \in SUBSET {"a", "b"} :
          LET candidate == CHOOSE c \in GeoProbes : c.minX = 0
          IN  geo' = [op |-> "findCollision", candidate |-> candidate, boxes |-> boxes,
                      ignored |-> ignored, out |-> findCollision(candidate, boxes, ignored)]
    /\ UNCHANGED <<editorVars, store, lastOp>>

GeoFindCollisionForMany ==
    /\ geo = NoGeo
    /\ \E candidates \in GeoSeqs(GeoProbes, MaxCandidates) :
       \E boxes \in GeoSeqs(GeoIndexBoxes, MaxCandidates) : \E ignored \in SUBSET {"a", "b"} :
          geo' = [op |-> "findCollisionForMany", candidates |-> candidates, boxes |-> boxes,
                  ignored |-> ignored,
                  out |-> findCollisionForMany(candidates, boxes, ignored)]
    /\ UNCHANGED <<editorVars, store, lastOp>>

\* the truss handler's collision test on the playground and the premium scene
GeoTrussTest ==
    /\ geo = NoGeo
    /\ \E cfg \in { normalizeConfig(collisionPlayground),
                     normalizeConfig(presetConfigs("premium")) } :
       \E x \in GeoXs : \E z \in GeoZs :
          LET c == clampXZ(x, z, cfg.width, cfg.depth, trussHandleHalf, trussHandleHalf)
              ps == TrussColumnPositions(cfg.width, cfg.depth, c.x, c.z)
              candidates == [k \in 1..4 |->
                                makeAabb(TrussColIds[k], "Truss-Stuetze", ps[k][1], ps[k][2],
                                         columnSize, columnSize, collisionClearance(cfg))]
              ignoreSelf == { TrussColIds[k] : k \in 1..4 }
          IN  geo' = [op |-> "trussTest", candidates |-> candidates,
                      scene |-> sceneAabbs(cfg),
                      out |-> ensureNoCollision(cfg, "truss", candidates, ignoreSelf)]
    /\ UNCHANGED <<editorVars, store, lastOp>>

\* the scene box of a detailed counter and the clamp and candidate box its
\* handler builds when the pointer is at the stored position
GeoCounterBox ==
    /\ geo = NoGeo
    /\ \E cfgVariant \in {"nil", "basic", "premium", "corner"} :
       \E variant \in {"nil", "basic", "premium", "corner"} :
       \E w \in {Nil, 12000} : \E d \in {Nil, 9000} :
       \E x \in {Nil, 0 - 14000, 29000} : \E z \in {Nil, 12000} :
       \E clearance \in {Nil, 0, 2500} :
          LET ctr == Ctr("c1", variant, w, d, x, z)
              cfg == [normalizeConfig(presetConfigs("medium")) EXCEPT
                         !.counterVariant = cfgVariant,
                         !.collisionClearance = clearance,
                         !.countersDetailed = <<ctr, Ctr("c2", "basic", 9000, 5000, 20000, 0)>>]
              cw == CounterW(cfg, ctr)
              cd == CounterD(cfg, ctr)
              c == clampXZ(Dflt(ctr.x, 0), Dflt(ctr.z, 0), cfg.width, cfg.depth,
                           cw \div 2, cd \div 2)
          IN  geo' = [op |-> "counterBox", cfg |-> cfg, ctr |-> ctr,
                      scene |-> sceneAabbs(cfg), halfW |-> cw \div 2, halfD |-> cd \div 2,
                      c |-> c,
                      candidate |-> makeAabb(CtrKey(ctr.id), "Counter", c.x, c.z, cw, cd,
                                             collisionClearance(cfg))]
    /\ UNCHANGED <<editorVars, store, lastOp>>

NextGeo ==
    \/ GeoClampXZ
    \/ GeoRulesClampXZ
    \/ GeoMakeAabb
    \/ GeoIntersects
    \/ GeoApplyInteractionRules
    \/ GeoScreenTarget
    \/ GeoCounterTest
    \/ GeoNormalizeTwice
    \/ GeoFindCollision
    \/ GeoFindCollisionForMany
    \/ GeoTrussTest
    \/ GeoCounterBox

SpecGeo == Init /\ [][NextGeo]_vars

\* ------------------------------------------------------------------------
\* store/configStore.ts: the actions of useConfigStore on `store`
\* ------------------------------------------------------------------------
\* objects no configuration of the store refers to any more are dropped and
\* the others renumbered in order of first use: config, history, future
RECURSIVE FirstUses(_)
FirstUses(refs) ==
    IF Len(refs) = 0 THEN <<>>
    ELSE With(FirstUses(SubSeq(refs, 1, Len(refs) - 1)), LAMBDA seen :
             IF refs[Len(refs)] = 0 \/ \E k \in 1..Len(seen) : seen[k] = refs[Len(refs)]
             THEN seen
             ELSE Append(seen, refs[Len(refs)]))

RefRank(seen, r) == IF r = 0 THEN 0 ELSE CHOOSE k \in 1..Len(seen) : seen[k] = r

Collect(store0) ==
    With(store0, LAMBDA st :
    With(<<st.config>> \o st.history \o st.future, LAMBDA all :
    With(FirstUses(SubSeq([i \in 1..Len(all) |-> all[i].cabin], 1, Len(all))), LAMBDA cabins :
    With(FirstUses(SubSeq([i \in 1..Len(all) |-> all[i].floor], 1, Len(all))), LAMBDA floors :
        [st EXCEPT
            !.config = [@ EXCEPT !.cabin = RefRank(cabins, @), !.floor = RefRank(floors, @)],
            !.history = SubSeq([i \in 1..Len(st.history) |->
                                  [st.history[i] EXCEPT !.cabin = RefRank(cabins, @),
                                                        !.floor = RefRank(floors, @)]],
                               1, Len(st.history)),
            !.future = SubSeq([i \in 1..Len(st.future) |->
                                 [st.future[i] EXCEPT !.cabin = RefRank(cabins, @),
                                                      !.floor = RefRank(floors, @)]],
                              1, Len(st.future)),
            !.heap = [cabins |-> SubSeq([k \in 1..Len(cabins) |-> st.heap.cabins[cabins[k]]],
                                        1, Len(cabins)),
                      floors |-> SubSeq([k \in 1..Len(floors) |-> st.heap.floors[floors[k]]],
                                        1, Len(floors))]]))))

\* config, price, history and future of a store with their objects
DeepStore(st) ==
    [config |-> Deep(st.config, st.heap), price |-> st.price,
     history |-> DeepSeq(st.history, st.heap), future |-> DeepSeq(st.future, st.heap)]

pushHistoryRef_keepFuture(st) ==
    [st EXCEPT !.history = pushHistory(st.history, st.config)]

\* set({ history: cut, future: [] })
pushHistoryRef(st) ==
    [st EXCEPT !.history = pushHistory(st.history, st.config), !.future = <<>>]

\* applyFinal(cfg): normalizeConfig, calcPrice, set({ config, price })
applyFinal(st, cfg, heap) ==
    With(withNormalized(cfg, heap), LAMBDA n :
        [st EXCEPT !.config = n.config, !.price = n.price, !.heap = n.heap])

setConfigOn(st, partial) ==
    With(pushHistoryRef(st), LAMBDA pushed :
    With(MergeRefConfig(pushed.config, partial, pushed.heap), LAMBDA merged :
        applyFinal(pushed, merged.config, merged.heap)))

\* arguments of setConfig, patchModules and setModule: stand width, height
\* and type, setModule("raisedFloor", true), the storage room checkbox and
\* a cabin position typed into the sidebar
StorePartials ==
    { [NoPartial EXCEPT !.has = {"width"}, !.width = 20000],
      [NoPartial EXCEPT !.has = {"height"}, !.height = 30000],
      [NoPartial EXCEPT !.has = {"type"}, !.type = "island"],
      [NoPartial EXCEPT !.has = {"raisedFloor"}, !.raisedFloor = TRUE],
      [NoPartial EXCEPT !.has = {"storageRoom"}, !.storageRoom = TRUE],
      [NoPartial EXCEPT !.has = {"storageRoom"}, !.storageRoom = FALSE],
      [NoPartial EXCEPT !.has = {"cabin"}, !.cabinHas = {"position"},
                        !.cabinX = 0 - 80000] }

StoreStep(name, next) ==
    /\ store' = Collect(next)
    /\ lastOp' = [op |-> name, ok |-> TRUE]
    /\ edits' = edits + 1
    /\ UNCHANGED <<config, history, future, lastValidPositions, collidingKeys, selectedKey,
                   dragging, pos, posY, rConfig, rLastValid, drags, lastTick, geo>>

setConfig(partial) ==
    /\ edits < MaxStoreEdits
    /\ StoreStep("setConfig", setConfigOn(store, partial))

applyPreset(preset) ==
    /\ edits < MaxStoreEdits
    /\ LET pushed == pushHistoryRef(store)
       IN  StoreStep("applyPreset", applyFinal(pushed, presetRefConfigs(preset), pushed.heap))

\* replaceConfig(next) with a configuration of the caller: an island stand
\* that asks for a storage room and brings an enabled cabin far outside
replaceConfig ==
    /\ edits < MaxStoreEdits
    /\ LET pushed == pushHistoryRef(store)
           heap == [pushed.heap EXCEPT !.cabins =
                       Append(@, [enabled |-> TRUE, width |-> 20000, depth |-> 16000,
                                  height |-> Nil, x |-> 90000, z |-> 0 - 90000])]
           next == [RefConfig(60000, 40000, 25000, "island", TRUE, FALSE)
                       EXCEPT !.cabin = Len(heap.cabins)]
       IN  StoreStep("replaceConfig", applyFinal(pushed, next, heap))

\* beyond MaxStoreEdits the history is filled by reset() calls alone, made
\* while nothing is left to redo
reset ==
    /\ edits < MaxPushes
    /\ edits < MaxStoreEdits \/ store.future = <<>>
    /\ LET pushed == pushHistoryRef(store)
       IN  StoreStep("reset", applyFinal(pushed, presetRefConfigs("small"), pushed.heap))

setCabinPositionOn(st, x, z) ==
    LET current == st.config
        cabin == [st.heap.cabins[current.cabin] EXCEPT !.x = x, !.z = z]
    IN  With(clampCabinPosition(current, cabin), LAMBDA p :
            setConfigOn(st, [NoPartial EXCEPT !.has = {"cabin"}, !.cabinHas = {"position"},
                                              !.cabinX = p.x, !.cabinZ = p.z]))

setCabinPosition(x, z) ==
    /\ edits < MaxStoreEdits
    /\ StoreStep("setCabinPosition", setCabinPositionOn(store, x, z))

nudgeCabin(dx, dz) ==
    /\ edits < MaxStoreEdits
    /\ LET current == store.config
           cabin == store.heap.cabins[current.cabin]
           cx == Dflt(cabin.x, (0 - current.width) \div 2 + Dflt(cabin.width, 15000) \div 2 + 2500)
                   + dx
           cz == Dflt(cabin.z, (0 - current.depth) \div 2 + Dflt(cabin.depth, 15000) \div 2 + 2500)
                   + dz
       IN  StoreStep("nudgeCabin", setCabinPositionOn(store, cx, cz))

setCabinSize(width, depth) ==
    /\ edits < MaxStoreEdits
    /\ StoreStep("setCabinSize",
                 setConfigOn(store, [NoPartial EXCEPT !.has = {"cabin"},
                                                      !.cabinHas = {"width", "depth"},
                                                      !.cabinWidth = width,
                                                      !.cabinDepth = depth]))

\* undo() and redo() as functions of the store: the value returned and the
\* store they leave
undoOn(st) ==
    IF Len(st.history) = 0 THEN [ok |-> FALSE, store |-> st]
    ELSE LET prev == st.history[Len(st.history)]
             newHist == SubSeq(st.history, 1, Len(st.history) - 1)
             moved == [st EXCEPT !.history = newHist, !.future = <<st.config>> \o @]
         IN  [ok |-> TRUE, store |-> Collect(applyFinal(moved, prev, moved.heap))]

redoOn(st) ==
    IF Len(st.future) = 0 THEN [ok |-> FALSE, store |-> st]
    ELSE LET next == st.future[1]
             rest == Tail(st.future)
             moved == [st EXCEPT !.history = Append(@, st.config), !.future = rest]
         IN  [ok |-> TRUE, store |-> Collect(applyFinal(moved, next, moved.heap))]

StoreReturn(name, result) ==
    /\ store' = result.store
    /\ lastOp' = [op |-> name, ok |-> result.ok]
    /\ UNCHANGED <<config, history, future, lastValidPositions, collidingKeys, selectedKey,
                   dragging, pos, posY, rConfig, rLastValid, edits, drags, lastTick, geo>>

\* at most MaxRedoDepth steps are undone in a row
undo ==
    /\ Len(store.future) < MaxRedoDepth
    /\ StoreReturn("undo", undoOn(store))

redo ==
    /\ redoOn(store).ok \/ Len(store.future) = 0
    /\ StoreReturn("redo", redoOn(store))

NextStore ==
    \/ \E partial \in StorePartials : setConfig(partial)
    \/ \E preset \in {"medium", "premium"} : applyPreset(preset)
    \/ replaceConfig
    \/ reset
    \/ setCabinPosition(50000, 0 - 50000)
    \/ nudgeCabin(5000, 0)
    \/ setCabinSize(20000, 10000)
    \/ undo
    \/ redo

SpecStore == Init /\ [][NextStore]_vars

\* ------------------------------------------------------------------------
\* Properties
\* ------------------------------------------------------------------------
\* the entity a scene box belongs to: the four truss columns are one entity
EntityOf(id) == IF \E k \in 1..4 : TrussColIds[k] = id THEN "truss" ELSE id

StrictOverlap(a, b) ==
    a.minX < b.maxX /\ a.maxX > b.minX /\ a.minZ < b.maxZ /\ a.maxZ > b.minZ

\* the boxes share an edge or a corner and no interior point
Touching(a, b) ==
    /\ a.minX <= b.maxX /\ a.maxX >= b.minX /\ a.minZ <= b.maxZ /\ a.maxZ >= b.minZ
    /\ ~StrictOverlap(a, b)

TickStep == lastTick'.key # "none"

\* C1: in every committed configuration no two scene boxes of two different
\* entities intersect.
C1_StoreCollisionFree ==
    LET boxes == sceneAabbs(config)
    IN  \A i \in 1..Len(boxes) : \A j \in 1..Len(boxes) :
           EntityOf(boxes[i].id) # EntityOf(boxes[j].id) => ~intersects(boxes[i], boxes[j])

\* C2: a rejected tick of E leaves the configuration, the undo and redo stacks
\* and the RollbackCache unchanged, flags E as colliding and puts E's on-screen
\* position back to RollbackCache[E].
C2_RejectedTickFrame ==
    [][ (TickStep /\ lastTick'.collided) =>
          /\ UNCHANGED <<config, history, future, lastValidPositions>>
          /\ lastTick'.key \in collidingKeys'
          /\ lastTick'.key \in DOMAIN lastValidPositions
          /\ pos' = lastValidPositions[lastTick'.key] ]_vars

\* C3: right after an accepted tick of E, E is not flagged, and E's stored
\* position, RollbackCache[E] and the on-screen position all equal the
\* normalized candidate, which lies inside the stand.
C3_AcceptedTickCommits ==
    (lastTick.key # "none" /\ ~lastTick.collided) =>
        /\ lastTick.key \notin collidingKeys
        /\ lastTick.key \in ValidKeys(config)
        /\ StoredPos(config, lastTick.key) = lastTick.target
        /\ lastTick.key \in DOMAIN lastValidPositions
        /\ lastValidPositions[lastTick.key] = lastTick.target
        /\ pos = lastTick.target
        /\ Abs(2 * lastTick.target.x) <= config.width
        /\ Abs(2 * lastTick.target.z) <= config.depth

C3_Witness ==
    /\ lastTick.key # "none"
    /\ ~lastTick.collided
    /\ lastTick.clamped
    /\ pos = lastTick.target
    /\ StoredPos(config, lastTick.key) = lastTick.target

\* C4: an entity is flagged as colliding only while it is being dragged.
C4_CollidingOnlyWhileDragging ==
    \A k \in collidingKeys : dragging /\ selectedKey = k

\* C5: a rejected tick of E that follows an accepted tick of E puts the
\* on-screen position on the position that accepted tick committed, which is
\* E's position in the store.
C5_RevertToLastCommit ==
    [][ (/\ lastTick.key # "none"
         /\ ~lastTick.collided
         /\ lastTick'.key = lastTick.key
         /\ lastTick'.collided) =>
          /\ pos' = lastTick.target
          /\ pos' = StoredPos(config', lastTick.key) ]_vars

\* C6: for half extents that fit the stand, both clampXZ functions return a
\* point with x in [-width/2+halfW, width/2-halfW] and z in
\* [-depth/2+halfD, depth/2-halfD], and return a point of that range unchanged.
C6_ClampBound ==
    (/\ geo.op \in {"clampXZ", "rulesClampXZ"}
     /\ 2 * geo.halfW <= geo.width
     /\ 2 * geo.halfD <= geo.depth) =>
        LET loX == geo.halfW - geo.width \div 2
            hiX == geo.width \div 2 - geo.halfW
            loZ == geo.halfD - geo.depth \div 2
            hiZ == geo.depth \div 2 - geo.halfD
        IN  /\ loX <= geo.out.x /\ geo.out.x <= hiX
            /\ loZ <= geo.out.z /\ geo.out.z <= hiZ
            /\ (loX <= geo.x /\ geo.x <= hiX /\ loZ <= geo.z /\ geo.z <= hiZ)
                  => (geo.out.x = geo.x /\ geo.out.z = geo.z)

\* a call that moves x onto the upper bound and leaves an in-range z alone
C6_Witness ==
    /\ geo.op = "clampXZ"
    /\ geo.halfW > 0
    /\ 2 * geo.halfW <= geo.width
    /\ 2 * geo.halfD <= geo.depth
    /\ geo.x > geo.width \div 2 - geo.halfW
    /\ geo.out.x = geo.width \div 2 - geo.halfW
    /\ geo.out.z = geo.z

\* C7: a wall-mounted entity gets one coordinate fixed to the inner face of its
\* wall, moved inwards by the offset, and the rotation of that wall: back fixes
\* z and gives 0 degrees, left fixes x and gives +90, right fixes x and gives
\* -90, whatever the requested position is. applyInteractionRules takes the
\* offset from the away padding, else from the half depth, else 0.001 m; the
\* screen handler uses offset 0.
C7_WallAnchoring ==
    /\ (/\ geo.op = "applyInteractionRules"
        /\ geo.options.mount = "wall"
        /\ "wall" \in interactionProfiles[geo.profile].allowedLevels) =>
          LET offset == IF geo.options.away # Nil THEN geo.options.away
                        ELSE IF geo.options.halfZ # Nil THEN geo.options.halfZ
                        ELSE 10
              side == geo.out.wallSide
          IN  /\ geo.options.wallSide # "nil" => side = geo.options.wallSide
              /\ side \in {"back", "left", "right"}
              /\ side = "back" =>
                    /\ geo.out.position.z = 600 + 100 + offset - geo.depth \div 2
                    /\ geo.out.rotationY = 0
              /\ side = "left" =>
                    /\ geo.out.position.x = 600 + 100 + offset - geo.width \div 2
                    /\ geo.out.rotationY = 90
              /\ side = "right" =>
                    /\ geo.out.position.x = geo.width \div 2 - 600 - 100 - offset
                    /\ geo.out.rotationY = 0 - 90
    /\ (geo.op = "screenTarget" /\ geo.scr.mount = "wall") =>
          /\ geo.scr.wallSide \in {"back", "nil"} =>
                geo.out.z = 700 - geo.depth \div 2 /\ geo.rot = 0
          /\ geo.scr.wallSide = "left" =>
                geo.out.x = 700 - geo.width \div 2 /\ geo.rot = 90
          /\ geo.scr.wallSide = "right" =>
                geo.out.x = geo.width \div 2 - 700 /\ geo.rot = 0 - 90

\* the left-wall screen on the 6 x 4 m stand: x = -2.93 m for a target far
\* outside the stand
C7_Witness ==
    /\ geo.op = "screenTarget"
    /\ geo.scr.mount = "wall"
    /\ geo.scr.wallSide = "left"
    /\ geo.width = 60000
    /\ geo.depth = 40000
    /\ geo.x = 31000
    /\ geo.z = 26000
    /\ geo.out.x = 0 - 29300
    /\ geo.rot = 90

\* C8: makeAabb puts the box of a footprint w x d around (x, z) and widens it
\* by the padding p on every side: min = centre - size/2 - p,
\* max = centre + size/2 + p, so the extents are w + 2p and d + 2p and
\* min <= max on both axes.
C8_AabbExpandsByPadding ==
    (geo.op = "makeAabb" /\ geo.w >= 0 /\ geo.d >= 0 /\ geo.p >= 0) =>
        /\ 2 * geo.out.minX = 2 * geo.x - geo.w - 2 * geo.p
        /\ 2 * geo.out.maxX = 2 * geo.x + geo.w + 2 * geo.p
        /\ 2 * geo.out.minZ = 2 * geo.z - geo.d - 2 * geo.p
        /\ 2 * geo.out.maxZ = 2 * geo.z + geo.d + 2 * geo.p
        /\ geo.out.maxX - geo.out.minX = geo.w + 2 * geo.p
        /\ geo.out.maxZ - geo.out.minZ = geo.d + 2 * geo.p
        /\ geo.out.minX <= geo.out.maxX
        /\ geo.out.minZ <= geo.out.maxZ

\* the 1 x 0.5 m footprint with padding 0.2 m at x = 0: 1.4 m wide
C8_Witness ==
    /\ geo.op = "makeAabb"
    /\ geo.x = 0
    /\ geo.w = 10000
    /\ geo.d = 5000
    /\ geo.p = 2000
    /\ geo.out.maxX - geo.out.minX = 14000
    /\ geo.out.maxZ - geo.out.minZ = 9000

\* C9: intersects(a, b) holds exactly when the open intervals of a and b
\* overlap on both axes; the counter handler's test reports a collision exactly
\* when the candidate strictly overlaps a scene box of another entity, so a
\* candidate that only touches other boxes is accepted.
C9_StrictOverlapOnly ==
    /\ geo.op = "intersects" => (geo.out <=> StrictOverlap(geo.a, geo.b))
    /\ geo.op = "counterTest" =>
          (geo.out.collided <=>
              \E i \in 1..Len(geo.scene) :
                 /\ geo.scene[i].id # geo.candidate.id
                 /\ StrictOverlap(geo.candidate, geo.scene[i]))

\* a counter dropped flush against the box of another entity is not a collision
C9_Witness ==
    /\ geo.op = "counterTest"
    /\ ~geo.out.collided
    /\ \E i \in 1..Len(geo.scene) :
          /\ geo.scene[i].id # geo.candidate.id
          /\ Touching(geo.candidate, geo.scene[i])

\* C10: intersects(a, b) = intersects(b, a) for all boxes a and b.
C10_IntersectsSymmetric ==
    geo.op = "intersects" => (geo.out <=> geo.rev)

\* two different boxes that share an edge, and two that overlap
C10_Witness ==
    /\ geo.op = "intersects"
    /\ geo.a # geo.b
    /\ geo.a.maxX = geo.b.minX
    /\ geo.a.minZ < geo.b.maxZ
    /\ geo.a.maxZ > geo.b.minZ
    /\ ~geo.out
    /\ ~geo.rev

\* C11: a tick of E never reports a hit on a box the scene index derived from
\* E itself (the four truss-col-* boxes for the truss), and it is rejected
\* exactly when one of its candidate boxes overlaps a box of another entity,
\* wherever E's own indexed boxes are.
C11_OwnBoxesIgnored ==
    lastTick.key # "none" =>
        LET scene == sceneAabbs(rConfig)
        IN  /\ lastTick.collided => EntityOf(lastTick.hit) # lastTick.key
            /\ lastTick.collided <=>
                  \E k \in 1..Len(lastTick.boxes) : \E i \in 1..Len(scene) :
                     /\ EntityOf(scene[i].id) # lastTick.key
                     /\ StrictOverlap(lastTick.boxes[k], scene[i])

\* an accepted truss tick whose column boxes overlap the truss's own indexed
\* column boxes
C11_Witness ==
    /\ lastTick.key = "truss"
    /\ ~lastTick.collided
    /\ \E k \in 1..Len(lastTick.boxes) : \E i \in 1..Len(sceneAabbs(rConfig)) :
          /\ EntityOf(sceneAabbs(rConfig)[i].id) = "truss"
          /\ StrictOverlap(lastTick.boxes[k], sceneAabbs(rConfig)[i])

\* C12: for a floor-mounted entity whose half size fits the stand, normalizing
\* the position a first normalization returned gives that same result.
C12_NormalizeIdempotent ==
    (/\ geo.op = "normalizeTwice"
     /\ 2 * Dflt(geo.options.halfX, 0) <= geo.width
     /\ 2 * Dflt(geo.options.halfZ, 0) <= geo.depth) =>
        geo.second = geo.first

\* C13: a counter tick whose padded candidate overlaps the padded footprint of
\* another counter of the committed configuration is rejected.
C13_CounterOverlapRejected ==
    \A i \in 1..Len(config.countersDetailed) : \A j \in 1..Len(config.countersDetailed) :
       (/\ lastTick.key = CtrKey(config.countersDetailed[i].id)
        /\ j # i
        /\ StrictOverlap(lastTick.boxes[1],
                         makeAabb("other", "Counter",
                                  Dflt(config.countersDetailed[j].x, 0),
                                  Dflt(config.countersDetailed[j].z, 0),
                                  CounterW(config, config.countersDetailed[j]),
                                  CounterD(config, config.countersDetailed[j]),
                                  collisionClearance(config))))
          => lastTick.collided

\* 6 x 4 m stand, clearance 0.25 m: counter B (0.9 x 0.5) put at (-0.1, 1.3)
\* while counter A (1.4 x 0.6) is at (-1.4, 1.2); padded 1.4 x 1.0 against
\* 1.9 x 1.1
C13_Witness ==
    /\ config.width = 60000
    /\ config.depth = 40000
    /\ collisionClearance(config) = 2500
    /\ lastTick.key = "ctr-d-ctr-demo-2"
    /\ lastTick.target = P(0 - 1000, 13000)
    /\ lastTick.boxes[1].maxX - lastTick.boxes[1].minX = 14000
    /\ lastTick.boxes[1].maxZ - lastTick.boxes[1].minZ = 10000
    /\ StoredPos(config, "ctr-d-ctr-demo-1") = P(0 - 14000, 12000)
    /\ lastTick.collided
    /\ lastTick.hit = "ctr-d-ctr-demo-1"

\* the stored record of the entity with the given key without its position
\* (and, for a wall-mounted screen, without its wallSide)
RecordSansPosition(cfg, key) ==
    IF key = "cabin" THEN [cfg.cabin EXCEPT !.x = 0, !.z = 0]
    ELSE IF key = "truss"
    THEN [truss |-> cfg.truss, trussHeight |-> cfg.trussHeight]
    ELSE IF \E i \in 1..Len(cfg.countersDetailed) : CtrKey(cfg.countersDetailed[i].id) = key
    THEN LET i == CHOOSE i \in 1..Len(cfg.countersDetailed) :
                      CtrKey(cfg.countersDetailed[i].id) = key
         IN  [cfg.countersDetailed[i] EXCEPT !.x = 0, !.z = 0]
    ELSE IF \E i \in 1..Len(cfg.detailedScreens) : ScrKey(cfg.detailedScreens[i].id) = key
    THEN LET i == CHOOSE i \in 1..Len(cfg.detailedScreens) :
                      ScrKey(cfg.detailedScreens[i].id) = key
             scr == cfg.detailedScreens[i]
         IN  [scr EXCEPT !.x = 0, !.z = 0,
                         !.wallSide = IF ScreenMount(scr) = "wall" THEN "any" ELSE @]
    ELSE [absent |-> TRUE]

\* C14: an accepted tick changes no field of the dragged entity's stored
\* record other than its position (and wallSide for a wall-mounted screen):
\* size, variant, mount, heightFromFloor keep their values.
C14_OnlyPositionPatched ==
    [][ (TickStep /\ ~lastTick'.collided) =>
          RecordSansPosition(config', lastTick'.key)
             = RecordSansPosition(config, lastTick'.key) ]_vars

\* the stored record of the entity with the given key
StoredRecord(cfg, key) ==
    IF key = "cabin" THEN cfg.cabin
    ELSE IF key = "truss"
    THEN [truss |-> cfg.truss, trussHeight |-> cfg.trussHeight, trussOffset |-> cfg.trussOffset]
    ELSE IF \E i \in 1..Len(cfg.countersDetailed) : CtrKey(cfg.countersDetailed[i].id) = key
    THEN LET i == CHOOSE i \in 1..Len(cfg.countersDetailed) :
                      CtrKey(cfg.countersDetailed[i].id) = key
         IN  cfg.countersDetailed[i]
    ELSE IF \E i \in 1..Len(cfg.detailedScreens) : ScrKey(cfg.detailedScreens[i].id) = key
    THEN LET i == CHOOSE i \in 1..Len(cfg.detailedScreens) :
                      ScrKey(cfg.detailedScreens[i].id) = key
         IN  cfg.detailedScreens[i]
    ELSE [absent |-> TRUE]

\* C15: a tick of E, accepted or rejected, leaves the stored record of every
\* other entity as it was and creates or destroys no entity.
C15_OnlyDraggedEntityWritten ==
    [][ TickStep =>
          /\ ValidKeys(config') = ValidKeys(config)
          /\ Len(config'.countersDetailed) = Len(config.countersDetailed)
          /\ Len(config'.detailedScreens) = Len(config.detailedScreens)
          /\ \A k \in ValidKeys(config) \ {lastTick'.key} :
                StoredRecord(config', k) = StoredRecord(config, k) ]_vars

\* an accepted tick that moved its entity in a configuration of seven entities
C15_Witness ==
    /\ lastTick.key # "none"
    /\ ~lastTick.collided
    /\ Cardinality(ValidKeys(config)) = 7
    /\ history # <<>>
    /\ StoredPos(config, lastTick.key) # StoredPos(history[Len(history)], lastTick.key)

\* the step is an accepted tick that sets the cache entry of the dragged
\* entity to its committed position and leaves every other entry alone
CacheCommitStep ==
    /\ TickStep
    /\ ~lastTick'.collided
    /\ DOMAIN lastValidPositions' = DOMAIN lastValidPositions \cup {lastTick'.key}
    /\ lastValidPositions'[lastTick'.key] = StoredPos(config', lastTick'.key)
    /\ \A k \in DOMAIN lastValidPositions \ {lastTick'.key} :
          lastValidPositions'[k] = lastValidPositions[k]

\* the cache now holds the committed position of every entity
CacheSeeded ==
    /\ DOMAIN lastValidPositions' = ValidKeys(config')
    /\ \A k \in ValidKeys(config') : lastValidPositions'[k] = StoredPos(config', k)

\* C16 as stated: the RollbackCache changes only by an accepted tick of E,
\* which sets entry E to the committed position, or by a re-seed from the
\* committed configuration when the entity set changed.
C16_CacheChangesAsStated ==
    [][ lastValidPositions' # lastValidPositions =>
          \/ CacheCommitStep
          \/ (ValidKeys(config) # ValidKeys(rConfig) /\ CacheSeeded) ]_vars

\* C16 amended: the RollbackCache changes only by an accepted tick of E, which
\* sets entry E to the committed position, or by a re-seed from the committed
\* configuration at a re-render after the committed configuration changed;
\* a rejected tick, a tick of another entity and the end of a drag never
\* change entry E.
C16_CacheChanges ==
    [][ lastValidPositions' # lastValidPositions =>
          \/ CacheCommitStep
          \/ (rConfig # config /\ rConfig' = config /\ config' = config /\ CacheSeeded) ]_vars

\* the cache entry of the cabin was re-seeded after a sidebar edit moved the
\* cabin: no tick was ever handled and the entity set is the same as before
C16_Witness ==
    /\ drags = 0
    /\ rConfig = config
    /\ history # <<>>
    /\ ValidKeys(history[Len(history)]) = ValidKeys(config)
    /\ "cabin" \in DOMAIN lastValidPositions
    /\ lastValidPositions["cabin"] = StoredPos(config, "cabin")
    /\ StoredPos(history[Len(history)], "cabin") # StoredPos(config, "cabin")

\* the footprint of a wall-mounted screen record stays inside the stand along
\* its wall: along z on the left and right wall, along x on the back wall
WallFootprintInside(cfg, scr) ==
    LET w == Dflt(scr.w, 9000)
    IN  (ScreenMount(scr) = "wall" /\ w <= cfg.width /\ w <= cfg.depth) =>
           IF ScreenSide(scr) = "back"
           THEN /\ 2 * scr.x - w >= 0 - cfg.width
                /\ 2 * scr.x + w <= cfg.width
           ELSE /\ 2 * scr.z - w >= 0 - cfg.depth
                /\ 2 * scr.z + w <= cfg.depth

\* C17: after an accepted tick of a wall-mounted screen of width w the
\* committed footprint stays inside the stand along the wall: z - w/2 >=
\* -depth/2 and z + w/2 <= depth/2 on the left or right wall, x - w/2 >=
\* -width/2 and x + w/2 <= width/2 on the back wall.
C17_WallFreeAxisClamped ==
    [][ (TickStep /\ ~lastTick'.collided) =>
          \A i \in 1..Len(config'.detailedScreens) :
             ScrKey(config'.detailedScreens[i].id) = lastTick'.key =>
                WallFootprintInside(config', config'.detailedScreens[i]) ]_vars

\* the same for screens on the back wall only
C17_BackWallOnly ==
    [][ (TickStep /\ ~lastTick'.collided) =>
          \A i \in 1..Len(config'.detailedScreens) :
             (/\ ScrKey(config'.detailedScreens[i].id) = lastTick'.key
              /\ ScreenSide(config'.detailedScreens[i]) = "back") =>
                WallFootprintInside(config', config'.detailedScreens[i]) ]_vars

\* indexes of the boxes that are not ignored and overlap the candidate
HitIndexes(candidate, boxes, ignored) ==
    { i \in 1..Len(boxes) : boxes[i].id \notin ignored /\ StrictOverlap(candidate, boxes[i]) }

LeastOf(S) == CHOOSE i \in S : \A j \in S : i <= j

\* C18: findCollision returns the first box in index order that is not
\* ignored and intersects the candidate, and undefined exactly when there is
\* none; of several intersecting boxes the one with the lowest index wins,
\* however near or far it is.
C18_FirstInIndexOrder ==
    geo.op = "findCollision" =>
        LET hits == HitIndexes(geo.candidate, geo.boxes, geo.ignored)
        IN  IF hits = {} THEN geo.out = NoBox
            ELSE geo.out = geo.boxes[LeastOf(hits)]

\* an ignored overlapping box first, then a box overlapping by a sliver, then
\* a box covering the candidate: the sliver box is returned
C18_Witness ==
    /\ geo.op = "findCollision"
    /\ Len(geo.boxes) = 3
    /\ geo.boxes[1].id \in geo.ignored /\ StrictOverlap(geo.candidate, geo.boxes[1])
    /\ geo.boxes[2].id \notin geo.ignored /\ geo.boxes[2].minX = 1900
    /\ geo.boxes[3].id \notin geo.ignored /\ geo.boxes[3].minX = 0
    /\ geo.out = geo.boxes[2]

\* C19: findCollisionForMany reports a collision iff some candidate
\* intersects some box that is not ignored, and returns the first such pair in
\* candidate-major order; the truss handler's test collides iff one of the
\* four column boxes intersects a scene box that is not a truss column.
C19_CandidateMajor ==
    /\ geo.op = "findCollisionForMany" =>
          LET ks == { k \in 1..Len(geo.candidates) :
                        HitIndexes(geo.candidates[k], geo.boxes, geo.ignored) # {} }
          IN  IF ks = {}
              THEN geo.out = [collided |-> FALSE, hit |-> NoBox, candidate |-> NoBox]
              ELSE LET k == LeastOf(ks)
                       i == LeastOf(HitIndexes(geo.candidates[k], geo.boxes, geo.ignored))
                   IN  geo.out = [collided |-> TRUE, hit |-> geo.boxes[i],
                                  candidate |-> geo.candidates[k]]
    /\ geo.op = "trussTest" =>
          (geo.out.collided <=>
             \E k \in 1..4 : \E i \in 1..Len(geo.scene) :
                /\ EntityOf(geo.scene[i].id) # "truss"
                /\ StrictOverlap(geo.candidates[k], geo.scene[i]))

\* the first candidate hits only the second box, the second candidate hits
\* the first box: the pair of the first candidate is returned
C19_Witness ==
    /\ geo.op = "findCollisionForMany"
    /\ Len(geo.candidates) = 2 /\ Len(geo.boxes) = 2
    /\ HitIndexes(geo.candidates[1], geo.boxes, geo.ignored) = {2}
    /\ 1 \in HitIndexes(geo.candidates[2], geo.boxes, geo.ignored)
    /\ geo.out.collided
    /\ geo.out.candidate = geo.candidates[1]
    /\ geo.out.hit = geo.boxes[2]

\* truss tests that collide on a column other than the first, and that are free
C19_TrussCollides ==
    /\ geo.op = "trussTest"
    /\ geo.out.collided
    /\ geo.out.candidate.id # TrussColIds[1]

C19_TrussFree == geo.op = "trussTest" /\ ~geo.out.collided

\* the boxes of an index that do not belong to the entity with the given key
OthersOf(scene, key) ==
    LET NotOwn(box) == EntityOf(box.id) # key
    IN  SelectSeq(scene, NotOwn)

\* C20: the scene index is a pure function of the committed configuration
\* and the clearance: the index a tick tests equals buildSceneAabbs of the
\* configuration committed at the time of the tick, up to the dragged
\* entity's own boxes; the index changes only at a re-render after the
\* committed configuration changed, and then to buildSceneAabbs of it; a
\* rejected tick leaves the index and the committed configuration unchanged.
C20_IndexFollowsCommitted ==
    [][ /\ TickStep =>
             OthersOf(lastTick'.scene, lastTick'.key)
               = OthersOf(buildSceneAabbs(config, collisionClearance(config)), lastTick'.key)
        /\ sceneAabbs(rConfig') # sceneAabbs(rConfig) =>
             /\ rConfig # config
             /\ config' = config
             /\ sceneAabbs(rConfig') = buildSceneAabbs(config, collisionClearance(config))
        /\ (TickStep /\ lastTick'.collided) =>
             /\ sceneAabbs(rConfig') = sceneAabbs(rConfig)
             /\ config' = config ]_vars

\* a tick was rejected against an index computed before the dragged entity's
\* last accepted tick: it differs from the committed one in the own box only
C20_Witness ==
    /\ lastTick.key # "none"
    /\ lastTick.collided
    /\ Len(lastTick.scene) >= 2
    /\ lastTick.scene # buildSceneAabbs(config, collisionClearance(config))

\* footprint of a counter record as the specification states it: the explicit
\* size, else 1.4 x 0.6 for the premium variant and 0.9 x 0.5 otherwise
StatedCounterSize(cfg, ctr) ==
    LET variant == IF ctr.variant # "nil" THEN ctr.variant
                   ELSE IF cfg.counterVariant # "nil" THEN cfg.counterVariant ELSE "basic"
    IN  [w |-> IF ctr.w # Nil THEN ctr.w ELSE IF variant = "premium" THEN 14000 ELSE 9000,
         d |-> IF ctr.d # Nil THEN ctr.d ELSE IF variant = "premium" THEN 6000 ELSE 5000]

\* C21: the scene index holds exactly one box per detailed counter, centred
\* at the stored position, with the explicit size or else 1.4 x 0.6 (premium)
\* or 0.9 x 0.5 (other variants), padded by the clearance on every side; the
\* handler clamps and builds its candidate with the same footprint.
C21_CounterFootprint ==
    geo.op = "counterBox" =>
        LET size == StatedCounterSize(geo.cfg, geo.ctr)
            cl == IF geo.cfg.collisionClearance = Nil THEN DEFAULT_CLEARANCE
                  ELSE geo.cfg.collisionClearance
            x == IF geo.ctr.x = Nil THEN 0 ELSE geo.ctr.x
            z == IF geo.ctr.z = Nil THEN 0 ELSE geo.ctr.z
            own == { i \in 1..Len(geo.scene) : geo.scene[i].id = "ctr-d-" \o geo.ctr.id }
            stated == [id |-> "ctr-d-" \o geo.ctr.id, label |-> "Counter",
                       minX |-> x - size.w \div 2 - cl, maxX |-> x + size.w \div 2 + cl,
                       minZ |-> z - size.d \div 2 - cl, maxZ |-> z + size.d \div 2 + cl]
        IN  /\ Cardinality(own) = 1
            /\ Cardinality({ i \in 1..Len(geo.scene) : geo.scene[i].label = "Counter" })
                  = Len(geo.cfg.countersDetailed)
            /\ \A i \in own : geo.scene[i] = stated
            /\ geo.halfW = size.w \div 2 /\ geo.halfD = size.d \div 2
            /\ geo.candidate.maxX - geo.candidate.minX = stated.maxX - stated.minX
            /\ geo.candidate.maxZ - geo.candidate.minZ = stated.maxZ - stated.minZ
            /\ geo.c = [x |-> x, z |-> z] => geo.candidate = stated

\* a counter without size and variant in a configuration whose counterVariant
\* is premium: boxed 1.4 x 0.6 plus the default clearance
C21_Witness ==
    /\ geo.op = "counterBox"
    /\ geo.ctr.w = Nil /\ geo.ctr.d = Nil /\ geo.ctr.variant = "nil"
    /\ geo.cfg.counterVariant = "premium"
    /\ geo.cfg.collisionClearance = Nil
    /\ geo.c = [x |-> geo.ctr.x, z |-> geo.ctr.z]
    /\ geo.candidate.maxX - geo.candidate.minX = 14000 + 2 * DEFAULT_CLEARANCE
    /\ \E i \in 1..Len(geo.scene) : geo.scene[i] = geo.candidate

\* the screen handler anchors a wall-mounted screen without wallSide to the
\* back wall, with rotation 0
C22_HandlerDefaultsToBack ==
    (/\ geo.op = "screenTarget"
     /\ geo.scr.mount \in {"nil", "wall"}
     /\ geo.scr.wallSide = "nil") =>
        /\ geo.out.z = 600 + 100 - geo.depth \div 2
        /\ geo.rot = 0

\* C22: an absent wallSide defaults to back: for every profile and requested
\* position, applyInteractionRules anchors a wall-mounted entity without
\* wallSide to the back wall (z fixed to the back wall face, rotation 0,
\* wallSide = back), and so does the screen handler.
C22_AbsentWallSideIsBack ==
    /\ (/\ geo.op = "applyInteractionRules"
        /\ geo.options.mount = "wall"
        /\ geo.options.wallSide = "nil") =>
          LET offset == IF geo.options.away # Nil THEN geo.options.away
                        ELSE IF geo.options.halfZ # Nil THEN geo.options.halfZ
                        ELSE 10
          IN  /\ geo.out.wallSide = "back"
              /\ geo.out.rotationY = 0
              /\ geo.out.position.z = 600 + 100 + offset - geo.depth \div 2
    /\ C22_HandlerDefaultsToBack

\* the same for the screen profile only, the one profile that allows wall mounting
C22_ScreenProfileOnly ==
    (/\ geo.op = "applyInteractionRules"
     /\ geo.profile = "screen"
     /\ geo.options.mount = "wall"
     /\ geo.options.wallSide = "nil") => geo.out.wallSide = "back"

\* the boxes the index derives for the entity with the given key
OwnBoxes(cfg, key) ==
    LET Own(box) == EntityOf(box.id) = key
    IN  SelectSeq(buildSceneAabbs(cfg, collisionClearance(cfg)), Own)

\* the committed screen with the given key is mounted on the truss
TrussMounted(cfg, key) ==
    \E i \in 1..Len(cfg.detailedScreens) :
       /\ ScrKey(cfg.detailedScreens[i].id) = key
       /\ ScreenMount(cfg.detailedScreens[i]) = "truss"

\* C23: the candidate boxes an accepted tick built for entity E at p are the
\* boxes buildSceneAabbs derives for E from the configuration the tick
\* committed, for every entity kind and mount.
C23_CandidateIsIndexBox ==
    [][ (TickStep /\ ~lastTick'.collided) =>
          lastTick'.boxes = OwnBoxes(config', lastTick'.key) ]_vars

\* the same for every entity but truss-mounted screens
C23_ExceptTrussMounted ==
    [][ (TickStep /\ ~lastTick'.collided /\ ~TrussMounted(config', lastTick'.key)) =>
          lastTick'.boxes = OwnBoxes(config', lastTick'.key) ]_vars

\* C24: whenever no re-render is pending, the RollbackCache has entries for
\* exactly the placed entities and each entry is the entity's position in the
\* committed configuration, after any sequence of ticks, undo and redo, preset
\* and playground loads and sidebar edits.
C24_CacheMatchesCommitted ==
    ~RenderPending =>
        /\ DOMAIN lastValidPositions = ValidKeys(config)
        /\ \A k \in ValidKeys(config) : lastValidPositions[k] = StoredPos(config, k)

\* after a drag a commit that moved an entity was undone and the re-render
\* has run: the cache holds the restored position, not the undone one
C24_Witness ==
    /\ ~RenderPending
    /\ drags > 0
    /\ future # <<>>
    /\ \E k \in ValidKeys(config) \cap ValidKeys(future[1]) :
          /\ StoredPos(future[1], k) # StoredPos(config, k)
          /\ lastValidPositions[k] = StoredPos(config, k)

\* ------------------------------------------------------------------------
\* Undo history of the store
\* ------------------------------------------------------------------------
\* a configuration without its cabin and floor objects
Shallow(cfg) == [cfg EXCEPT !.cabin = 0, !.floor = 0]

ShallowSeq(cfgs) == [i \in 1..Len(cfgs) |-> Shallow(cfgs[i])]

\* the step is one of the store's config-changing actions other than undo
\* and redo
PushStep == edits' = edits + 1

LastN(q, n) == IF Len(q) > n THEN SubSeq(q, Len(q) - n + 1, Len(q)) ELSE q

\* C25: after any sequence of store actions the history holds at most
\* historyLimit configurations, and a config-changing action appends the
\* configuration it replaces and, when the limit is exceeded, drops the
\* oldest entries.
C25_HistoryBounded ==
    /\ [](Len(store.history) <= historyLimit)
    /\ [][PushStep => ShallowSeq(store'.history) =
                        LastN(Append(ShallowSeq(store.history), Shallow(store.config)),
                              historyLimit)]_vars

\* the history was full and one more reset() dropped its oldest entry
C25_Witness ==
    /\ lastOp.op = "reset"
    /\ edits > historyLimit
    /\ Len(store.history) = historyLimit

PushOps ==
    {"setConfig", "applyPreset", "replaceConfig", "reset", "setCabinPosition", "nudgeCabin",
     "setCabinSize"}

\* C26: every config-changing action other than undo and redo empties the
\* redo stack: in the store it leaves, redo() returns false and changes
\* nothing, and a redo() called next does return false and leave the store
\* as it is.
C26_PushEmptiesFuture ==
    [][/\ PushStep =>
            /\ store'.future = <<>>
            /\ redoOn(store') = [ok |-> FALSE, store |-> store']
       /\ lastOp.op \in PushOps /\ lastOp'.op = "redo" =>
            /\ ~lastOp'.ok
            /\ store' = store]_vars

\* two actions have pushed but the history holds one entry: the second came
\* after an undo and found a configuration to redo
C26_Witness ==
    /\ lastOp.op \in PushOps
    /\ edits = 2
    /\ Len(store.history) = 1
    /\ store.future = <<>>

\* C27: undo restores exactly the configuration that was current before the
\* most recent config-changing action: the action followed by undo() yields
\* a configuration equal to it in every field, and the snapshots in the
\* history are the configurations as they were when they were pushed.
C27_UndoRestores ==
    [][PushStep =>
          /\ Deep(undoOn(store').store.config, undoOn(store').store.heap)
                = Deep(store.config, store.heap)
          /\ DeepSeq(store'.history, store'.heap)
                = LastN(Append(DeepSeq(store.history, store.heap),
                               Deep(store.config, store.heap)), historyLimit)]_vars

\* undo after the action restores the flags and the sizes of the stand
C27_UndoRestoresStand ==
    [][PushStep => Shallow(undoOn(store').store.config) = Shallow(store.config)]_vars

\* undo after the action restores the configuration, its cabin and floor
\* objects included
C27_UndoRestoresObjects ==
    [][PushStep => Deep(undoOn(store').store.config, undoOn(store').store.heap)
                     = Deep(store.config, store.heap)]_vars

\* C28: undo followed by redo is a round trip: with a non-empty history
\* both return true and leave config, price, history and future as they were
\* before the undo; undo() on an empty history and redo() on an empty redo
\* stack return false and change nothing.
C28_UndoRedoRoundTrip ==
    /\ [](LET u == undoOn(store)
              r == redoOn(u.store)
          IN  /\ Len(store.history) > 0 =>
                    /\ u.ok
                    /\ r.ok
                    /\ r.store.price = store.price
                    /\ DeepStore(r.store) = DeepStore(store)
              /\ Len(store.history) = 0 => u = [ok |-> FALSE, store |-> store]
              /\ Len(store.future) = 0 => redoOn(store) = [ok |-> FALSE, store |-> store])
    /\ [][/\ lastOp'.op = "undo" /\ Len(store.history) = 0 => ~lastOp'.ok /\ store' = store
          /\ lastOp'.op = "redo" /\ Len(store.future) = 0 => ~lastOp'.ok /\ store' = store
          /\ lastOp'.op = "undo" /\ Len(store.history) > 0 =>
                /\ lastOp'.ok
                /\ DeepStore(redoOn(store').store) = DeepStore(store)]_vars

\* undo followed by redo returns true twice and leaves the configuration
\* with its objects, the price, and the stand fields of the history and
\* future entries as they were
C28_RoundTripOfCurrent ==
    [](LET u == undoOn(store)
           r == redoOn(u.store)
       IN  Len(store.history) > 0 =>
              /\ u.ok
              /\ r.ok
              /\ r.store.price = store.price
              /\ Deep(r.store.config, r.store.heap) = Deep(store.config, store.heap)
              /\ ShallowSeq(r.store.history) = ShallowSeq(store.history)
              /\ ShallowSeq(r.store.future) = ShallowSeq(store.future))

\* ------------------------------------------------------------------------
\* The cabin in the store
\* ------------------------------------------------------------------------
\* modules.cabin of the store's configuration
storeCabin == store.heap.cabins[store.config.cabin]

\* C29: in every store state where the cabin is enabled and not wider or
\* deeper than the stand, the stored cabin position keeps the cabin inside
\* the stand: |x| <= width/2 - cabinWidth/2 and |z| <= depth/2 - cabinDepth/2.
C29_CabinInsideStand ==
    storeCabin.enabled /\ storeCabin.width <= store.config.width
                       /\ storeCabin.depth <= store.config.depth =>
        /\ storeCabin.x # Nil
        /\ storeCabin.z # Nil
        /\ 2 * Abs(storeCabin.x) <= store.config.width - storeCabin.width
        /\ 2 * Abs(storeCabin.z) <= store.config.depth - storeCabin.depth

\* setCabinPosition(5, -5) on a stand with an enabled cabin: the cabin was
\* stopped at the right and the back edge
C29_Witness ==
    /\ lastOp.op = "setCabinPosition"
    /\ storeCabin.enabled
    /\ storeCabin.width < store.config.width
    /\ 2 * storeCabin.x = store.config.width - storeCabin.width
    /\ 2 * storeCabin.z = storeCabin.depth - store.config.depth

\* C30: in every store state the cabin is enabled exactly when storageRoom
\* is set, and both are false when the stand type has no back wall; the
\* scene index contains a cabin box exactly when storageRoom is set on a
\* stand with a back wall.
C30_CabinFollowsStorageRoom ==
    LET view == View(store.config, store.heap)
        hasBack == wallFixedMap(store.config.type) >= 1
    IN  /\ storeCabin.enabled <=> store.config.storageRoom
        /\ ~hasBack => ~storeCabin.enabled /\ ~store.config.storageRoom
        /\ (\E i \in 1..Len(sceneAabbs(view)) : sceneAabbs(view)[i].id = "cabin")
              <=> (store.config.storageRoom /\ hasBack)

\* a configuration that asks for a storage room on an island stand was
\* loaded over a stand with an enabled cabin
C30_Witness ==
    /\ lastOp.op = "replaceConfig"
    /\ store.config.type = "island"
    /\ ~storeCabin.enabled
    /\ Len(store.history) > 0
    /\ store.heap.cabins[store.history[Len(store.history)].cabin].enabled
====
